---- MODULE Spec2Model ----
(***************************************************************************)
(* The task orchestration engine of packages/core: the Orchestrator's task *)
(* table, its running set, the retry loop around executeTaskLogic, the     *)
(* scan for the next pending task, cancelTask, and the lifecycle events    *)
(* it emits, together with the task memories of the MemoryManager that     *)
(* executeTaskLogic reads and writes.                                      *)
(*                                                                         *)
(* Each await of the TypeScript code is a point where other handlers may   *)
(* run; the code between two awaits is one atomic action.                  *)
(***************************************************************************)
EXTENDS Integers, Sequences, FiniteSets, TLC

(*************************** bounds of the model ***************************)
\* maxConcurrentTasks ranges over 1..MaxConcurrent.
MaxConcurrent == 2
\* maxRetries ranges over 1..MaxRetriesCfg.
MaxRetriesCfg == 2
\* cancelTask changes a given task at most MaxCancelled times in a run.
MaxCancelled == 1

(**************************** program constants ****************************)
\* config.retryDelay (milliseconds), the constructor's default.
RetryDelay == 1000

\* The tasks of a run, named in the order they are submitted: every task
\* object is submitted once, under an identifier of its own (createTask
\* draws it with generateId, a fresh uuid).
TaskIds == {1, 2}

\* Task['status']
Pending == "pending"
InProgress == "in_progress"
Completed == "completed"
Failed == "failed"
Cancelled == "cancelled"
TerminalStatuses == {Completed, Failed, Cancelled}

\* The messages of the errors an attempt can end with.
ErrMemoryNotFound == "Task memory not found"
ErrNoAgent == "No agent available for task type"
ErrAgent == "agent error"
ErrTimeout == "Task execution timeout"
\* The error a throwing listener raises out of emit.
ErrListener == "listener error"
\* The events of a task's lifecycle that listeners are registered for.
LifecycleEvents ==
  {"task:submitted", "task:started", "task:completed", "task:failed"}

\* The agents registerDefaultAgents registers, by id.
DefaultAgents ==
  {"planner", "researcher", "coder", "tester", "packager", "reviewer",
   "security", "dx-writer"}

\* selectAgent's agentTypeMap: task type -> agent id.
agentTypeMap ==
  [ty \in {"code-generation", "testing", "packaging", "security", "rtl",
           "documentation"} |->
     CASE ty = "code-generation" -> "coder"
       [] ty = "testing" -> "tester"
       [] ty = "packaging" -> "packager"
       [] ty = "security" -> "security"
       [] ty = "rtl" -> "coder"
       [] ty = "documentation" -> "dx-writer"]

\* The descriptions and types the submitted task objects carry: an empty
\* string stands for a missing field.
Descriptions == {"", "add input validation"}
SubmittedTypes == {"", "code-generation"}

\* What the agent bound to a task does when execute is called for it: it
\* fails on the attempts 1..fails (by throwing, or by not answering before
\* the timeout) and returns a result on every later attempt, with success
\* TRUE (final "ok") or success FALSE (final "soft").  The agents here
\* answer at once, throw on the first attempts (fewer than any retry
\* limit allows, so a later attempt can succeed), or never answer in time.
AgentBehaviours ==
  {[fails |-> 0, mode |-> "throw", final |-> "ok"],
   [fails |-> 0, mode |-> "throw", final |-> "soft"],
   [fails |-> MaxRetriesCfg, mode |-> "hang", final |-> "ok"]}
  \cup [fails : 1..(MaxRetriesCfg - 1), mode : {"throw"}, final : {"ok"}]

VARIABLES
  config,         \* Orchestrator.config
  agents,         \* Orchestrator.agents: the ids of the registered agents
  tasks,          \* Orchestrator.tasks: task id -> Task
  runningTasks,   \* Orchestrator.runningTasks
  emitted,        \* per task, the events emitted for it, in order
  pc,             \* per task, where its executeTask call is waiting
  attempt,        \* per task, executeWithRetry's loop variable
  waits,          \* per task, the retry delays awaited so far
  abandoned,      \* per task, timed-out attempts still running
  behaviour,      \* per task, what its agent does (see AgentBehaviours)
  taskMemories,   \* MemoryManager.taskMemories: task id -> TaskMemory
  lastCall,       \* the API call made by the latest step and its outcome
  throwing,       \* the event types for which a registered listener throws
  clock,          \* Date.now(), in milliseconds since the start
  tools,          \* ToolRegistry.tools: tool name -> the tool's parameters
  toolMetrics,    \* ToolRegistry.metrics: tool name -> ToolMetrics
  toolRuns,       \* the number of times a tool's execute was called
  toolLast,       \* the latest executeTool call and its outcome
  routerConfig,   \* ModelRouter.config
  zai,            \* ModelRouter.zai is set (initialize has run)
  models,         \* ModelRouter.models, in registration order
  requestTimes,   \* ModelRouter.requestTimes, the default model's entry
  passed,         \* the times of all calls that passed checkRateLimit
  routerLast,     \* the latest generateResponse call and its outcome
  memConfig,      \* MemoryManager.config
  memTaskMemories, \* MemoryManager.taskMemories of a manager on its own, in
                  \* insertion order and with its update times
  repoMemories,   \* MemoryManager.repoMemories, in insertion order
  memory,         \* MemoryManager.memory, in insertion order
  lastStore,      \* entry id -> the latest store call for it
  memLast,        \* the latest MemoryManager call and its outcome
  baseAgents,     \* agent name -> the BaseAgent's isInitialized and progress
  hookRuns,       \* agent name -> the number of onExecute calls
  agentLast,      \* the latest Agent call and its outcome
  batchPhase,     \* generateBatchResponses: "idle", "running" or "returned"
  batchRequests,  \* generateBatchResponses: its argument
  promises,       \* the generateResponse promise of each request of the batch
  responses,      \* generateBatchResponses: its `responses` array
  costBudget,     \* ModelRouter.config.costBudget: <<>> when undefined, else <<n>>
  metricsCost,    \* ModelRouter.metrics.cost of a router with a cost budget
  repoUpdates,    \* the number of updateRepo* calls made so far
  vectorConfig,   \* MemoryManager.config: enableVectorStore and
                  \* vectorStoreConfig.similarityThreshold, a fraction
  vectorStore,    \* MemoryManager.vectorStore, in insertion order
  vectorLast,     \* the latest vector store call and what it returned
  coderLast,      \* the latest CoderAgent.onExecute call and its TaskResult
  routerMetrics,  \* ModelRouter.metrics; latency is the number of samples held
  metricsLast,    \* the latest metered generateResponse call and its outcome
  retry,          \* one executeWithRetry call of the router: its position,
                  \* attempt number, the delays waited and the attempts' ends
  toolCalls,      \* executeTool calls in flight on "demo": call id -> its
                  \* position and the metrics object it holds
  toolGen         \* the number of the metrics object the registry holds for
                  \* "demo" (a registerTool call installs a new one)

\* The variables of the orchestrator.
orchVars ==
  <<config, agents, tasks, runningTasks, emitted, pc, attempt, waits,
    abandoned, behaviour, taskMemories, lastCall, throwing>>

\* The variables the orchestrator's handlers do not touch.
toolVars == <<tools, toolMetrics, toolRuns, toolLast>>

routerVars == <<routerConfig, zai, models, requestTimes, passed, routerLast>>

memVars == <<memConfig, memTaskMemories, repoMemories, memory, lastStore, memLast>>

agentVars == <<baseAgents, hookRuns, agentLast>>

\* The variables of the components other than the tool registry, the
\* router and the memory manager.
\* The variables of a generateBatchResponses call.
batchVars == <<batchPhase, batchRequests, promises, responses>>

\* The cost budget of a router and its running cost.
budgetVars == <<costBudget, metricsCost>>

repoVars == <<repoUpdates>>

vectorVars == <<vectorConfig, vectorStore, vectorLast>>

coderVars == <<coderLast>>

\* The router's metrics, one executeWithRetry call, and overlapping
\* executeTool calls.
lateVars == <<routerMetrics, metricsLast, retry, toolCalls, toolGen>>

furtherVars ==
  <<agentVars, batchVars, budgetVars, repoVars, vectorVars, coderVars, lateVars>>

outsideOrch == <<clock, toolVars, routerVars, memVars, furtherVars>>

outsideTool == <<clock, orchVars, routerVars, memVars, furtherVars>>

outsideRouter == <<clock, orchVars, toolVars, memVars, furtherVars>>

\* The other components and the clock, which no MemoryManager method changes.
outsideMem == <<clock, orchVars, toolVars, routerVars, furtherVars>>

vars == <<orchVars, outsideOrch>>

NoCall == [op |-> "none", id |-> 0, ret |-> "none"]

\* A TaskResult: output is the number of the attempt whose agent call
\* produced it (0 for the result executeTask builds for a failed task).
AgentResult(b, n) ==
  [success |-> (b.final = "ok"),
   errors |-> IF b.final = "ok" THEN <<>> ELSE <<"agent reported failure">>,
   output |-> n]

Event(type, detail) == [type |-> type, detail |-> detail]

(************************ helpers translated from the code *****************)
\* executeWithRetry's loop bound without its test of enableRetry.
maxAttemptsAlwaysRetry(cfg) == cfg.maxRetries

\* executeWithRetry's loop bound: enableRetry ? maxRetries : 1.
maxAttempts(cfg) == IF cfg.enableRetry THEN cfg.maxRetries ELSE 1

\* The delay awaited after failed attempt n: retryDelay * attempt.
retryWait(cfg, n) == cfg.retryDelay * n

\* submitTask's validation without its test of the description.
invalidTaskTypeOnly(desc, ty) == ty = ""

\* submitTask's validation: !task.description || !task.type.
invalidTask(desc, ty) == desc = "" \/ ty = ""

\* submitTask without its test of the running set.
underLimitUnchecked(running, cfg) == TRUE

\* submitTask's test before it starts the task itself.
underLimit(running, cfg) == Cardinality(running) < cfg.maxConcurrentTasks

\* processNextTask's early return.
atLimit(running, cfg) == Cardinality(running) >= cfg.maxConcurrentTasks

\* processNextTask's dependency test for one task.
dependenciesMet(tt, task) ==
  \A d \in task.dependencies : d \in DOMAIN tt /\ tt[d].status = Completed

\* processNextTask's test of one table entry.
eligible(tt, running, t) ==
  /\ tt[t].status = Pending
  /\ t \notin running
  /\ dependenciesMet(tt, tt[t])

\* The task processNextTask starts: the first eligible entry in the Map's
\* iteration order, which is insertion order, i.e. ascending id; 0 if none.
nextTask(tt, running) ==
  LET cand == {t \in DOMAIN tt : eligible(tt, running, t)}
  IN IF cand = {} THEN 0 ELSE CHOOSE t \in cand : \A u \in cand : t <= u

\* selectAgent: the agent id bound to the task's type, "" for null.
selectAgent(task, ag) ==
  IF task.type \in DOMAIN agentTypeMap /\ agentTypeMap[task.type] \in ag
  THEN agentTypeMap[task.type]
  ELSE ""

\* memoryManager.getTaskContext(taskId), which executeTaskLogic calls
\* first: it reads the context of the task's memory and throws when the
\* task has none, as getTaskMemory does.  The error message thrown, or ""
\* when the call returns.  (The MemoryManager class of ModelRouter.ts
\* itself defines no method of this name: with it the call throws for
\* every task, which is what a task without a task memory gets here.)
getTaskContext(mems, t) ==
  IF t \notin DOMAIN mems THEN ErrMemoryNotFound ELSE ""

\* MemoryManager.storeTaskResult then, when auditing is on, addAuditEntry,
\* as executeTaskLogic calls them after the agent has returned `result`.
storeAndAudit(cfg, mems, t, agentId, result) ==
  [mems EXCEPT
     ![t].results = Append(@, result.output),
     ![t].auditLog =
        IF cfg.enableAuditLog
        THEN Append(@, [agent |-> agentId, action |-> "execute_task",
                        success |-> result.success])
        ELSE @]

\* One call of executeTaskLogic for attempt n of task t, up to its end:
\* kind "throw" with the error, "return" with the result and the memories
\* as the call leaves them, or "hang" when the agent does not answer.
executeTaskLogic(cfg, ag, tt, mems, b, t, n) ==
  LET ctxErr == getTaskContext(mems, t)
      agentId == selectAgent(tt[t], ag)
      result == AgentResult(b, n)
      thrown(e) == [kind |-> "throw", error |-> e, result |-> result,
                    mems |-> mems]
  IN IF ctxErr # "" THEN thrown(ctxErr)
     ELSE IF agentId = "" THEN thrown(ErrNoAgent)
     ELSE IF n <= b.fails
          THEN IF b.mode = "throw" THEN thrown(ErrAgent)
               ELSE [kind |-> "hang", error |-> ErrTimeout, result |-> result,
                     mems |-> mems]
     ELSE IF t \notin DOMAIN mems THEN thrown(ErrMemoryNotFound)
     ELSE [kind |-> "return", error |-> "", result |-> result,
           mems |-> storeAndAudit(cfg, mems, t, agentId, result)]

\* executeTask's three table writes and cancelTask's.
startedTask(task) == [task EXCEPT !.status = InProgress]
completedTask(task, result) ==
  [task EXCEPT !.status = Completed, !.result = {result}]
\* executeTask's catch block putting the task back in the queue.
failedTaskRequeued(task, msg) == [task EXCEPT !.status = Pending]

failedTask(task, msg) ==
  [task EXCEPT !.status = Failed,
               !.result = {[success |-> FALSE, errors |-> <<msg>>,
                            output |-> 0]}]
cancelledTask(task) == [task EXCEPT !.status = Cancelled]

\* cancelTask without its refusal of running tasks.
cancelRefusedUnknownOnly(tt, t) == t \notin DOMAIN tt

\* cancelTask's two early returns of false: an unknown id, a running task.
cancelRefused(tt, t) == t \notin DOMAIN tt \/ tt[t].status = InProgress

\* The orchestrator's own state as one record, so that the steps a handler
\* makes in sequence compose.
Orch == [tasks |-> tasks, running |-> runningTasks, emitted |-> emitted,
         pc |-> pc, attempt |-> attempt]

emit(st, t, ev) == [st EXCEPT !.emitted[t] = Append(@, ev)]

\* emit(type, ...) rethrows what a listener of that type throws.
throws(type) == type \in throwing

RECURSIVE processNextTask(_, _)

\* executeTask's finally block.
executeTaskFinally(cfg, st, t) ==
  processNextTask(cfg, [st EXCEPT !.running = @ \ {t}, !.pc[t] = "done"])

\* executeTask's catch block without the scan for the next task.
executeTaskFailedNoScan(cfg, st, t, msg) ==
  LET s1 == [st EXCEPT !.tasks[t] = failedTask(@, msg)]
      s2 == emit(s1, t, Event("task:failed", msg))
  IN [s2 EXCEPT !.running = @ \ {t}, !.pc[t] = "done"]

\* executeTask's catch block, after executeWithRetry (or an emit of the try
\* block) threw `msg`.  When a listener of task:failed throws, the finally
\* block still runs and the rejection goes to the caller's catch handler.
executeTaskFailed(cfg, st, t, msg) ==
  LET s1 == [st EXCEPT !.tasks[t] = failedTask(@, msg)]
      s2 == emit(s1, t, Event("task:failed", msg))
  IN executeTaskFinally(cfg, s2, t)

\* executeTask after executeWithRetry returned `result`; a listener of
\* task:completed that throws sends it to the catch block.
executeTaskSucceeded(cfg, st, t, result) ==
  LET s1 == [st EXCEPT !.tasks[t] = completedTask(@, result)]
      s2 == emit(s1, t, Event("task:completed", ""))
  IN IF throws("task:completed")
     THEN executeTaskFailed(cfg, s2, t, ErrListener)
     ELSE executeTaskFinally(cfg, s2, t)

\* executeTask(t) up to its first await: the early return when t is running,
\* the running set, the in_progress write, task:started, and the first
\* attempt of executeWithRetry begun; a listener of task:started that throws
\* sends it to the catch block before any attempt.  `caller` is the method
\* that made the call; the event record keeps it.
executeTaskBegin(st, t, caller) ==
  IF t \in st.running THEN st
  ELSE LET s1 == [st EXCEPT !.running = @ \cup {t},
                            !.tasks[t] = startedTask(@)]
           s2 == emit(s1, t, Event("task:started", caller))
       IN IF throws("task:started")
          THEN executeTaskFailed(config, s2, t, ErrListener)
          ELSE [s2 EXCEPT !.pc[t] = "attempt", !.attempt[t] = 1]

\* processNextTask starting nothing.
processNextTaskIdle(cfg, st) == st

\* processNextTask.
processNextTask(cfg, st) ==
  IF atLimit(st.running, cfg) THEN st
  ELSE LET t == nextTask(st.tasks, st.running)
       IN IF t = 0 THEN st ELSE executeTaskBegin(st, t, "processNextTask")

\* executeWithRetry's catch block for attempt n: wait and retry while
\* attempts remain, and rethrow the last error to executeTask otherwise.
attemptFailed(cfg, st, t, msg) ==
  IF st.attempt[t] < maxAttempts(cfg)
  THEN [st EXCEPT !.pc[t] = "backoff"]
  ELSE executeTaskFailed(cfg, st, t, msg)

SetOrch(st) ==
  /\ tasks' = st.tasks
  /\ runningTasks' = st.running
  /\ emitted' = st.emitted
  /\ pc' = st.pc
  /\ attempt' = st.attempt

(********************************* the actions *****************************)
\* The configurations the constructor is given.  With retry disabled
\* maxRetries is not read, so one value of it stands for all.
Configs ==
  {c \in [maxConcurrentTasks : 1..MaxConcurrent,
          enableRetry : BOOLEAN,
          maxRetries : 1..MaxRetriesCfg,
          retryDelay : {RetryDelay},
          enableAuditLog : BOOLEAN] :
     ~c.enableRetry => c.maxRetries = MaxRetriesCfg}

OrchestratorInit ==
  /\ config \in Configs
  /\ agents = {}
  /\ tasks = <<>>
  /\ runningTasks = {}
  /\ emitted = [t \in TaskIds |-> <<>>]
  /\ pc = [t \in TaskIds |-> "idle"]
  /\ attempt = [t \in TaskIds |-> 0]
  /\ waits = [t \in TaskIds |-> <<>>]
  /\ abandoned = [t \in TaskIds |-> 0]
  /\ behaviour = [t \in TaskIds |-> [fails |-> 0, mode |-> "throw",
                                     final |-> "ok"]]
  /\ taskMemories = <<>>
  /\ lastCall = NoCall

\* A fresh orchestrator none of whose listeners throws.
NoToolCall ==
  [tool |-> "", args |-> <<>>, ret |-> "none", success |-> FALSE,
   error |-> "", errors |-> <<>>]

\* A fresh ToolRegistry.
ToolInit ==
  /\ tools = <<>>
  /\ toolMetrics = <<>>
  /\ toolRuns = 0
  /\ toolLast = NoToolCall

\* rateLimit.requests ranges over 1..MaxRateRequests.
MaxRateRequests == 2
\* rateLimit.window, in milliseconds.
MaxRateWindow == 2
\* The clock runs from 0 to MaxClock.
MaxClock == 2

\* The default models' maxTokens (registerDefaultModels), and the limit of
\* a larger model registered by registerModel.
TokensSmall == 4096
TokensDefault == 8192
TokensLarge == 16384

\* The configurations a ModelRouter is constructed with: the default
\* model is the default 'deepseek-coder', the smaller 'code-llama', or a
\* model that is never registered; no cost budget.
RouterConfigs ==
  [defaultModel : {"deepseek-coder", "code-llama", "custom-model"},
   fallbackModels : {<<"code-llama", "starcoder">>},
   maxRetries : {2},
   requests : 1..MaxRateRequests,
   window : {MaxRateWindow}]

NoRouterCall == [ret |-> "none", model |-> "", length |-> 0, backend |-> 0]

\* A fresh ModelRouter.
RouterInit ==
  /\ routerConfig \in RouterConfigs
  /\ zai = FALSE
  /\ models = <<>>
  /\ requestTimes = <<>>
  /\ passed = <<>>
  /\ routerLast = NoRouterCall

\* A fresh ModelRouter with the default model and the largest limit.
RouterIdle ==
  /\ RouterInit
  /\ routerConfig.defaultModel = "deepseek-coder"
  /\ routerConfig.requests = MaxRateRequests

\* config.maxTaskMemory ranges over 1..MaxTaskMemory.
MaxTaskMemory == 2
\* config.maxRepoMemory.
MaxRepoMemory == 1

\* The configurations a MemoryManager is constructed with; the vector
\* store is off (the default).
MemConfigs ==
  [maxTaskMemory : 1..MaxTaskMemory, maxRepoMemory : {MaxRepoMemory}]

NoMemCall == [op |-> "none", arg |-> <<>>, ret |-> "none"]

\* A fresh MemoryManager.
MemInit ==
  /\ memConfig \in MemConfigs
  /\ memTaskMemories = <<>>
  /\ repoMemories = <<>>
  /\ memory = <<>>
  /\ lastStore = <<>>
  /\ memLast = NoMemCall

\* A fresh MemoryManager with the largest ceilings.
MemIdle ==
  /\ MemInit
  /\ memConfig = [maxTaskMemory |-> MaxTaskMemory, maxRepoMemory |-> MaxRepoMemory]

NoAgentCall == [op |-> "none", agent |-> "", thrown |-> FALSE, ret |-> "none"]

\* Freshly constructed agents; `life` records what their owner has seen
\* complete: nothing ("new"), an initialize or, after it, a shutdown.
AgentInit ==
  /\ baseAgents = [a \in {"coder", "planner"} |->
                     [isInitialized |-> FALSE, initializing |-> 0,
                      shuttingDown |-> 0, life |-> "new"]]
  /\ hookRuns = [a \in {"coder", "planner"} |-> 0]
  /\ agentLast = NoAgentCall

\* The further components, freshly constructed.
\* No generateBatchResponses call yet.
BatchIdle ==
  /\ batchPhase = "idle"
  /\ batchRequests = <<>>
  /\ promises = <<>>
  /\ responses = <<>>

\* A router without a cost budget.
BudgetIdle ==
  /\ costBudget = <<>>
  /\ metricsCost = 0

RepoIdle == repoUpdates = 0

NoVectorCall == [op |-> "none", query |-> <<>>, limit |-> 0, results |-> <<>>]

\* The vector store of a MemoryManager constructed without configuration:
\* disabled, similarityThreshold 0.8.
VectorIdle ==
  /\ vectorConfig = [enableVectorStore |-> FALSE, similarityThreshold |-> <<4, 5>>]
  /\ vectorStore = <<>>
  /\ vectorLast = NoVectorCall

NoCoderCall ==
  [files |-> {}, parse |-> "none", generation |-> "none", lint |-> "none",
   fallback |-> FALSE, requestFiles |-> {}, thrown |-> FALSE, success |-> FALSE,
   error |-> ""]

CoderIdle == coderLast = NoCoderCall

\* executeTool calls that can be in flight at once.
MaxInFlight == 3
CallIds == 1..MaxInFlight

NoMetrics ==
  [requests |-> 0, tokensUsed |-> [nan |-> FALSE, n |-> 0],
   cost |-> [nan |-> FALSE, n |-> 0], latency |-> 0, errors |-> 0]

NoMeteredCall == [ret |-> "none", usage |-> [shape |-> "none", n |-> 0]]

NoRetry == [phase |-> "idle", attempt |-> 0, waits |-> <<>>, ends |-> <<>>]

NoToolCalls ==
  [c \in CallIds |->
     [state |-> "unstarted", gen |-> 0, among |-> 0,
      held |-> [calls |-> 0, successes |-> 0, failures |-> 0]]]

\* Fresh metrics, no executeWithRetry call and no executeTool call in flight.
LateIdle ==
  /\ routerMetrics = NoMetrics
  /\ metricsLast = NoMeteredCall
  /\ retry = NoRetry
  /\ toolCalls = NoToolCalls
  /\ toolGen = 0

FurtherIdle ==
  /\ AgentInit /\ BatchIdle /\ BudgetIdle /\ RepoIdle /\ VectorIdle /\ CoderIdle
  /\ LateIdle

\* Everything but the orchestrator, freshly constructed.
OutsideInit ==
  /\ clock = 0
  /\ ToolInit
  /\ RouterIdle
  /\ MemIdle
  /\ FurtherIdle

Init ==
  /\ OrchestratorInit
  /\ throwing = {}
  /\ OutsideInit

\* Orchestrator.initialize: registerDefaultAgents binds the default agents.
\* It is called before the first task is submitted, or not at all.
Initialize ==
  /\ agents = {}
  /\ tasks = <<>>
  /\ agents' = DefaultAgents
  /\ lastCall' = NoCall
  /\ UNCHANGED <<throwing, outsideOrch>>
  /\ UNCHANGED <<config, tasks, runningTasks, emitted, pc,
                 attempt, waits, abandoned, behaviour, taskMemories>>

\* memoryManager.createTaskMemory(t, context), called by the code that
\* prepares a task before it submits it (the orchestrator never calls it).
CreateTaskMemory(t) ==
  /\ t \notin DOMAIN tasks
  /\ t \notin DOMAIN taskMemories
  /\ taskMemories' = taskMemories @@ (t :> [results |-> <<>>, auditLog |-> <<>>])
  /\ lastCall' = NoCall
  /\ UNCHANGED <<throwing, outsideOrch>>
  /\ UNCHANGED <<config, agents, tasks, runningTasks, emitted,
                 pc, attempt, waits, abandoned, behaviour>>

\* submitTask(task) for the next fresh task: task.description = desc,
\* task.type = ty, task.dependencies = deps, task.status = 'pending' (as
\* createTask builds it); b is what the task's agent will do.  When a
\* listener of task:submitted throws, the call rejects with the task
\* already stored and nothing started.
SubmitTask(t, desc, ty, deps, b) ==
  /\ t \notin DOMAIN tasks
  /\ \A u \in 1..(t - 1) : u \in DOMAIN tasks
  /\ IF invalidTask(desc, ty)
     THEN /\ lastCall' = [op |-> "submitTask", id |-> t, ret |-> "error"]
          /\ UNCHANGED <<tasks, runningTasks, emitted, pc, attempt, behaviour>>
     ELSE LET task == [type |-> ty, dependencies |-> deps,
                       status |-> Pending, result |-> {}]
              s1 == [Orch EXCEPT !.tasks = @ @@ (t :> task)]
              s2 == emit(s1, t, Event("task:submitted", ""))
              s3 == IF throws("task:submitted") THEN s2
                    ELSE IF underLimit(s2.running, config)
                    THEN executeTaskBegin(s2, t, "submitTask")
                    ELSE s2
          IN /\ SetOrch(s3)
             /\ behaviour' = [behaviour EXCEPT ![t] = b]
             /\ lastCall' = [op |-> "submitTask", id |-> t,
                             ret |-> IF throws("task:submitted")
                                     THEN "error" ELSE "id"]
  /\ UNCHANGED <<throwing, outsideOrch>>
  /\ UNCHANGED <<config, agents, waits, abandoned,
                 taskMemories>>

\* The pending attempt of task t ends by itself: executeTaskLogic throws or
\* returns, and executeWithRetry and executeTask go on to their next await.
AttemptSettles(t) ==
  /\ pc[t] = "attempt"
  /\ LET r == executeTaskLogic(config, agents, tasks,
                               taskMemories, behaviour[t], t, attempt[t])
     IN /\ r.kind # "hang"
        /\ taskMemories' = r.mems
        /\ SetOrch(IF r.kind = "return"
                   THEN executeTaskSucceeded(config, Orch, t, r.result)
                   ELSE attemptFailed(config, Orch, t, r.error))
  /\ lastCall' = NoCall
  /\ UNCHANGED <<throwing, outsideOrch>>
  /\ UNCHANGED <<config, agents, waits, abandoned, behaviour>>

\* The timeout of the pending attempt of task t fires first: the race
\* rejects, and the attempt's executeTaskLogic call is left running.
AttemptTimesOut(t) ==
  /\ pc[t] = "attempt"
  /\ LET r == executeTaskLogic(config, agents, tasks,
                               taskMemories, behaviour[t], t, attempt[t])
     IN /\ r.kind = "hang"
        /\ SetOrch(attemptFailed(config, Orch, t, r.error))
  /\ abandoned' = [abandoned EXCEPT ![t] = @ + 1]
  /\ lastCall' = NoCall
  /\ UNCHANGED <<throwing, outsideOrch>>
  /\ UNCHANGED <<config, agents, waits, behaviour,
                 taskMemories>>

\* The delay after a failed attempt has passed: the next attempt begins.
RetryDelayElapses(t) ==
  /\ pc[t] = "backoff"
  /\ waits' = [waits EXCEPT ![t] = Append(@, retryWait(config, attempt[t]))]
  /\ attempt' = [attempt EXCEPT ![t] = @ + 1]
  /\ pc' = [pc EXCEPT ![t] = "attempt"]
  /\ lastCall' = NoCall
  /\ UNCHANGED <<throwing, outsideOrch>>
  /\ UNCHANGED <<config, agents, tasks, runningTasks, emitted,
                 abandoned, behaviour, taskMemories>>

\* An abandoned attempt's result treated as the task's result.
lateResultAccepted(cfg, st, t, result) == executeTaskSucceeded(cfg, st, t, result)

\* What executeWithRetry and executeTask do with the result of an attempt
\* whose race the timeout has already settled: nothing, the await of the
\* race was left when the timeout rejected it.
lateResult(cfg, st, t, result) == st

\* An attempt that timed out earlier gets its agent's answer after all and
\* runs the rest of executeTaskLogic; nobody awaits its promise any more.
AbandonedAttemptReturns(t) ==
  /\ abandoned[t] > 0
  /\ abandoned' = [abandoned EXCEPT ![t] = @ - 1]
  /\ LET agentId == selectAgent(tasks[t], agents)
         result == AgentResult(behaviour[t], 0)
     IN /\ taskMemories' =
             IF t \in DOMAIN taskMemories
             THEN storeAndAudit(config, taskMemories, t, agentId, result)
             ELSE taskMemories
        /\ SetOrch(lateResult(config, Orch, t, result))
  /\ lastCall' = NoCall
  /\ UNCHANGED <<throwing, outsideOrch>>
  /\ UNCHANGED <<config, agents, waits, behaviour>>

\* The number of task:cancelled events in a task's event list.
cancelledCount(evs) ==
  Cardinality({i \in 1..Len(evs) : evs[i].type = "task:cancelled"})

\* cancelTask(t).
CancelTask(t) ==
  /\ cancelledCount(emitted[t]) < MaxCancelled
  /\ IF cancelRefused(tasks, t)
     THEN /\ lastCall' = [op |-> "cancelTask", id |-> t, ret |-> "false"]
          /\ UNCHANGED <<tasks, emitted>>
     ELSE /\ tasks' = [tasks EXCEPT ![t] = cancelledTask(@)]
          /\ emitted' = [emitted EXCEPT
                           ![t] = Append(@, Event("task:cancelled", ""))]
          /\ lastCall' = [op |-> "cancelTask", id |-> t, ret |-> "true"]
  /\ UNCHANGED <<throwing, outsideOrch>>
  /\ UNCHANGED <<config, agents, runningTasks, pc, attempt,
                 waits, abandoned, behaviour, taskMemories>>

Next ==
  \/ Initialize
  \/ \E t \in TaskIds : CreateTaskMemory(t)
  \/ \E t \in TaskIds, desc \in Descriptions, ty \in SubmittedTypes,
        b \in AgentBehaviours :
       \E deps \in SUBSET (TaskIds \ {t}) : SubmitTask(t, desc, ty, deps, b)
  \/ \E t \in TaskIds : AttemptSettles(t)
  \/ \E t \in TaskIds : AttemptTimesOut(t)
  \/ \E t \in TaskIds : RetryDelayElapses(t)
  \/ \E t \in TaskIds : AbandonedAttemptReturns(t)
  \/ \E t \in TaskIds : CancelTask(t)

Spec == Init /\ [][Next]_vars

\* The orchestrator with a listener that throws registered, before the
\* first call, for some of the lifecycle events: one event type, or both
\* task:completed and task:failed.  Auditing is on and maxRetries is the
\* largest value.
ListenerConfigs ==
  {c \in Configs : c.enableAuditLog /\ c.maxRetries = MaxRetriesCfg}

ListenerInit ==
  /\ OrchestratorInit
  /\ config \in ListenerConfigs
  /\ throwing \in {{e} : e \in LifecycleEvents}
                   \cup {{"task:completed", "task:failed"}}
  /\ OutsideInit

ListenerSpec == ListenerInit /\ [][Next]_vars

(******************************* ToolRegistry ******************************)
\* A registered tool is called at most MaxToolCalls times in a run.
MaxToolCalls == 2

\* The runs of WorkSpec submit MaxWorkTasks tasks.
MaxWorkTasks == 4

WorkTaskIds == 1..MaxWorkTasks

\* An agent that throws on the first attempt.
FailingBehaviour == [fails |-> 1, mode |-> "throw", final |-> "ok"]

\* An orchestrator with MaxConcurrent slots, retry and auditing off, after
\* initialize() and with a task memory created for each task to come.
WorkInit ==
  /\ config = [maxConcurrentTasks |-> MaxConcurrent, enableRetry |-> FALSE,
               maxRetries |-> MaxRetriesCfg, retryDelay |-> RetryDelay,
               enableAuditLog |-> FALSE]
  /\ agents = DefaultAgents
  /\ tasks = <<>>
  /\ runningTasks = {}
  /\ emitted = [t \in WorkTaskIds |-> <<>>]
  /\ pc = [t \in WorkTaskIds |-> "idle"]
  /\ attempt = [t \in WorkTaskIds |-> 0]
  /\ waits = [t \in WorkTaskIds |-> <<>>]
  /\ abandoned = [t \in WorkTaskIds |-> 0]
  /\ behaviour = [t \in WorkTaskIds |-> [fails |-> 0, mode |-> "throw",
                                         final |-> "ok"]]
  /\ taskMemories = [t \in WorkTaskIds |-> [results |-> <<>>, auditLog |-> <<>>]]
  /\ lastCall = NoCall
  /\ throwing = {}
  /\ OutsideInit

\* Valid tasks, free or depending on the first task, whose agents succeed
\* or throw; their attempts settle; pending tasks are cancelled.
WorkNext ==
  \/ \E t \in WorkTaskIds,
        b \in {[fails |-> 0, mode |-> "throw", final |-> "ok"], FailingBehaviour} :
       \E deps \in {{}, {1} \ {t}} :
         SubmitTask(t, "add input validation", "code-generation", deps, b)
  \/ \E t \in WorkTaskIds : AttemptSettles(t)
  \/ \E t \in WorkTaskIds : CancelTask(t)

WorkSpec == WorkInit /\ [][WorkNext]_vars

\* An orchestrator that is constructed and left alone, for the runs of the
\* other components.
IdleOrchestrator ==
  /\ OrchestratorInit
  /\ config = [maxConcurrentTasks |-> MaxConcurrent, enableRetry |-> TRUE,
               maxRetries |-> MaxRetriesCfg, retryDelay |-> RetryDelay,
               enableAuditLog |-> TRUE]
  /\ throwing = {}

\* Argument values, each with what typeof gives for it: s holds a string's
\* text and n a number's value.
StrVal(x) == [js |-> "string", s |-> x, n |-> 0]
NumVal(k) == [js |-> "number", s |-> "", n |-> k]
NullVal == [js |-> "null", s |-> "", n |-> 0]
UndefinedVal == [js |-> "undefined", s |-> "", n |-> 0]

\* A ValidationRule: num is rule.value of a min or max rule, strs the
\* strings a regex rule's pattern matches or an enum rule's value lists.
Rule(type, num, strs, message) ==
  [type |-> type, num |-> num, strs |-> strs, message |-> message]

\* The parameters of the tool that is registered: a required string with a
\* regex rule, an optional number with a min and a max rule, an optional
\* string with an enum rule.
ToolParams ==
  << [name |-> "path", type |-> "string", required |-> TRUE,
      validation |-> <<Rule("regex", 0, {"a.txt"}, "path: not a file name")>>],
     [name |-> "count", type |-> "number", required |-> FALSE,
      validation |-> <<Rule("min", 1, {}, "count: below 1"),
                       Rule("max", 10, {}, "count: above 10")>>],
     [name |-> "mode", type |-> "string", required |-> FALSE,
      validation |-> <<Rule("enum", 0, {"fast", "safe"}, "mode: not listed")>>] >>

\* The keys an argument object may have, in the order they were added to
\* it (Object.entries follows that order), and the values tried for each.
ArgOrder == <<"path", "count", "mode", "extra">>

ArgValues ==
  [k \in {"path", "count", "mode", "extra"} |->
     CASE k = "path" -> {StrVal("a.txt"), StrVal("!"), NumVal(5), NullVal,
                         UndefinedVal}
       [] k = "count" -> {NumVal(0), NumVal(5), NumVal(11), StrVal("a.txt"),
                          NullVal}
       [] k = "mode" -> {StrVal("fast"), StrVal("slow"), NullVal}
       [] k = "extra" -> {NumVal(5)}]

\* The argument objects tried: a value for each key of any set of keys.
ArgObjects ==
  UNION {{a \in [D -> UNION {ArgValues[k] : k \in D}] :
            \A k \in D : a[k] \in ArgValues[k]} :
         D \in SUBSET {"path", "count", "mode", "extra"}}

RECURSIVE Flatten(_)
Flatten(ss) == IF ss = <<>> THEN <<>> ELSE Head(ss) \o Flatten(Tail(ss))

\* One entry of validateArguments' errors array.
ArgError(kind, name, message) ==
  [kind |-> kind, name |-> name, message |-> message]

\* validateType's actualType: typeof value (no array is tried).
actualType(val) ==
  IF val.js = "null" THEN "object" ELSE val.js

\* validateType.
validateType(name, val, expectedType) ==
  IF actualType(val) # expectedType
  THEN <<ArgError("type", name, expectedType)>>
  ELSE <<>>

\* validateRule; <<>> stands for null.
validateRule(name, val, rule) ==
  CASE rule.type = "min" ->
         IF val.js = "number" /\ val.n < rule.num
         THEN <<ArgError("rule", name, rule.message)>> ELSE <<>>
    [] rule.type = "max" ->
         IF val.js = "number" /\ val.n > rule.num
         THEN <<ArgError("rule", name, rule.message)>> ELSE <<>>
    [] rule.type = "regex" ->
         IF val.js = "string" /\ val.s \notin rule.strs
         THEN <<ArgError("rule", name, rule.message)>> ELSE <<>>
    [] rule.type = "enum" ->
         IF ~(val.js = "string" /\ val.s \in rule.strs)
         THEN <<ArgError("rule", name, rule.message)>> ELSE <<>>
    [] OTHER -> <<>>

\* validateArguments' test of the value before validateType:
\* value !== null && value !== undefined.
typeChecked(val) == val.js \notin {"null", "undefined"}

\* validateArguments' test for a missing parameter, never true.
requiredMissingNever(param, args) == FALSE

\* validateArguments' test for a missing parameter:
\* param.required && !(param.name in args).
requiredMissing(param, args) ==
  param.required /\ param.name \notin DOMAIN args

\* validateArguments' errors for one entry of args.
argumentErrors(params, name, val) ==
  LET idx == {i \in 1..Len(params) : params[i].name = name}
  IN IF idx = {} THEN <<ArgError("unknown", name, "")>>
     ELSE LET param == params[CHOOSE i \in idx : \A j \in idx : i <= j]
          IN (IF typeChecked(val) THEN validateType(name, val, param.type)
              ELSE <<>>)
             \o Flatten([j \in 1..Len(param.validation) |->
                           validateRule(name, val, param.validation[j])])

\* validateArguments(config, args): {valid, errors}.
validateArguments(params, args) ==
  LET missing ==
        Flatten([i \in 1..Len(params) |->
                   IF requiredMissing(params[i], args)
                   THEN <<ArgError("missing", params[i].name, "")>>
                   ELSE <<>>])
      keys == SelectSeq(ArgOrder, LAMBDA k : k \in DOMAIN args)
      errors ==
        missing \o Flatten([i \in 1..Len(keys) |->
                              argumentErrors(params, keys[i], args[keys[i]])])
  IN [valid |-> errors = <<>>, errors |-> errors]

countCallSuccessOnly(m, succeeded) ==
  [calls |-> m.calls + 1,
   successes |-> m.successes + (IF succeeded THEN 1 ELSE 0),
   failures |-> m.failures]

\* The metrics update of executeTool's try block (succeeded) or catch block.
countCall(m, succeeded) ==
  [calls |-> m.calls + 1,
   successes |-> m.successes + (IF succeeded THEN 1 ELSE 0),
   failures |-> m.failures + (IF succeeded THEN 0 ELSE 1)]

\* registerTool(config) for the tool "demo".
RegisterTool ==
  /\ "demo" \notin DOMAIN tools
  /\ tools' = tools @@ ("demo" :> ToolParams)
  /\ toolMetrics' = toolMetrics
                      @@ ("demo" :> [calls |-> 0, successes |-> 0,
                                     failures |-> 0])
  /\ UNCHANGED <<toolRuns, toolLast, outsideTool>>

\* executeTool(name, args); outcome is what the tool's execute does when
\* it is called: it returns a result with success true ("ok") or false
\* ("fail"), or it throws ("throw").  A call that does not reach the tool
\* is listed once, under "ok".
ExecuteTool(name, args, outcome) ==
  /\ UNCHANGED <<tools, outsideTool>>
  /\ IF name \notin DOMAIN tools
     THEN /\ toolLast' = [tool |-> name, args |-> args, ret |-> "throws",
                          success |-> FALSE, error |-> "Tool not found",
                          errors |-> <<>>]
          /\ UNCHANGED <<toolMetrics, toolRuns>>
     ELSE /\ toolMetrics[name].calls < MaxToolCalls
          /\ LET validation == validateArguments(tools[name], args)
             IN IF ~validation.valid
                THEN /\ outcome = "ok"
                     /\ toolRuns' = toolRuns
                     /\ toolMetrics' =
                          [toolMetrics EXCEPT ![name] = countCall(@, FALSE)]
                     /\ toolLast' =
                          [tool |-> name, args |-> args, ret |-> "returns",
                           success |-> FALSE, error |-> "Invalid arguments",
                           errors |-> validation.errors]
                ELSE /\ toolRuns' = toolRuns + 1
                     /\ toolMetrics' =
                          [toolMetrics EXCEPT
                             ![name] = countCall(@, outcome # "throw")]
                     /\ toolLast' =
                          [tool |-> name, args |-> args, ret |-> "returns",
                           success |-> (outcome = "ok"),
                           error |-> IF outcome = "ok" THEN ""
                                     ELSE IF outcome = "fail"
                                     THEN "tool reported failure"
                                     ELSE "tool error",
                           errors |-> <<>>]

ToolNext ==
  \/ RegisterTool
  \/ \E args \in ArgObjects, outcome \in {"ok", "fail", "throw"} :
       ExecuteTool("demo", args, outcome)
  \/ ExecuteTool("absent-tool", <<>>, "ok")

ToolSpecInit ==
  /\ IdleOrchestrator
  /\ OutsideInit

ToolSpec == ToolSpecInit /\ [][ToolNext]_vars

(****************** ToolRegistry: overlapping executeTool calls ************)
\* registerTool calls for "demo" after the first.
MaxToolGen == 1

\* An update that writes back the fields read when the call began.
settleFromHeld(live, held, succeeded) == countCall(held, succeeded)

\* `metrics.calls++; metrics.successes++` (or failures++) after the await:
\* `metrics` is a reference to the object, so the increments read the
\* object's fields as they are now (live), not as they were when the call
\* took the reference (held).
settle(live, held, succeeded) == countCall(live, succeeded)

inFlightCalls == {c \in CallIds : toolCalls[c].state = "pending"}

outsideOverlap ==
  <<clock, orchVars, routerVars, memVars, agentVars, batchVars, budgetVars, repoVars,
    vectorVars, coderVars, routerMetrics, metricsLast, retry>>

\* registerTool(config) for "demo" when it is registered already: the Map
\* takes a new tool and a new metrics object; calls in flight keep the old
\* object.
RegisterToolAgain ==
  /\ "demo" \in DOMAIN tools
  /\ toolGen < MaxToolGen
  /\ toolGen' = toolGen + 1
  /\ toolMetrics' = [toolMetrics EXCEPT
                       !["demo"] = [calls |-> 0, successes |-> 0, failures |-> 0]]
  /\ UNCHANGED <<tools, toolRuns, toolLast, toolCalls, outsideOverlap>>

\* executeTool("demo", args) with valid arguments, up to `await
\* tool.execute(args)`: the call holds the metrics object of the moment.
ToolCallBegin(c) ==
  /\ "demo" \in DOMAIN tools
  /\ toolCalls[c].state = "unstarted"
  /\ toolCalls' = [toolCalls EXCEPT
                     ![c] = [state |-> "pending", gen |-> toolGen,
                             among |-> Cardinality(inFlightCalls) + 1,
                             held |-> toolMetrics["demo"]]]
  /\ toolRuns' = toolRuns + 1
  /\ UNCHANGED <<tools, toolMetrics, toolLast, toolGen, outsideOverlap>>

\* The tool's execute settles for call c and executeTool runs to its end:
\* it updates the metrics object it holds, which is the registry's object
\* for "demo" unless the tool was registered again meanwhile.
ToolCallEnd(c, outcome) ==
  /\ toolCalls[c].state = "pending"
  /\ toolCalls' = [toolCalls EXCEPT ![c].state = "returned"]
  /\ toolMetrics' =
       IF toolCalls[c].gen = toolGen
       THEN [toolMetrics EXCEPT
               !["demo"] = settle(@, toolCalls[c].held, outcome # "throw")]
       ELSE toolMetrics
  /\ toolLast' = [tool |-> "demo", args |-> <<>>, ret |-> "returns",
                  success |-> (outcome = "ok"),
                  error |-> IF outcome = "ok" THEN ""
                            ELSE IF outcome = "fail" THEN "tool reported failure"
                            ELSE "tool error",
                  errors |-> <<>>]
  /\ UNCHANGED <<tools, toolRuns, toolGen, outsideOverlap>>

(****************************** ModelRouter ********************************)
\* Date.now() advances by one millisecond.
Tick ==
  /\ clock < MaxClock
  /\ clock' = clock + 1
  /\ UNCHANGED <<orchVars, toolVars, routerVars, memVars, furtherVars>>

\* costPerToken is counted in hundred-thousandths; 0 stands for a model
\* registered without costPerToken.
ModelConfig(name, maxTokens, costPerToken) ==
  [name |-> name, maxTokens |-> maxTokens, costPerToken |-> costPerToken]

\* registerDefaultModels: the five models, in this order.
DefaultModels ==
  <<ModelConfig("deepseek-coder", TokensDefault, 10),
    ModelConfig("code-llama", TokensSmall, 20),
    ModelConfig("starcoder", TokensDefault, 15),
    ModelConfig("gemma-code", TokensDefault, 10),
    ModelConfig("qwen-coder", TokensDefault, 12)>>

\* The models registerModel is called with: a new, larger model and a
\* larger replacement of a default model.
ExtraModels ==
  {ModelConfig("wide-model", TokensLarge, 0), ModelConfig("code-llama", TokensLarge, 20)}

isRegistered(ms, name) == \E i \in 1..Len(ms) : ms[i].name = name

modelsGet(ms, name) == ms[CHOOSE i \in 1..Len(ms) : ms[i].name = name]

\* Map.set: a known key keeps its place, a new key goes last.
modelsSet(ms, mc) ==
  IF isRegistered(ms, mc.name)
  THEN [i \in 1..Len(ms) |-> IF ms[i].name = mc.name THEN mc ELSE ms[i]]
  ELSE Append(ms, mc)

RECURSIVE registerAll(_, _)
registerAll(ms, new) ==
  IF new = <<>> THEN ms ELSE registerAll(modelsSet(ms, Head(new)), Tail(new))

\* A request is the sequence of its messages' content lengths; the text is
\* the contents joined with one space.
Requests ==
  {<<4 * TokensSmall>>, <<4 * TokensSmall + 1>>,
   <<2 * TokensDefault, 2 * TokensDefault - 1>>,
   <<2 * TokensDefault, 2 * TokensDefault>>,
   <<4 * TokensLarge + 1>>}

RECURSIVE sumLengths(_)
sumLengths(req) == IF req = <<>> THEN 0 ELSE Head(req) + sumLengths(Tail(req))

textLength(req) == IF req = <<>> THEN 0 ELSE sumLengths(req) + Len(req) - 1

\* Math.ceil(text.length / 4)
estimateTokenCount(req) == (textLength(req) + 3) \div 4

pickLast(S) == CHOOSE i \in S : \A j \in S : j <= i

\* The for..of loop over the Map breaks at the first match.
pickFirst(S) == CHOOSE i \in S : \A j \in S : i <= j

\* selectModel with config.costBudget undefined.
selectModel(cfg, ms, req) ==
  LET hasDefault == isRegistered(ms, cfg.defaultModel)
      fallback == IF Len(cfg.fallbackModels) > 0 THEN cfg.fallbackModels[1]
                  ELSE IF Len(ms) > 0 THEN ms[1].name ELSE "undefined"
      selected == IF hasDefault THEN cfg.defaultModel ELSE fallback
      estimatedTokens == estimateTokenCount(req)
      fits == {i \in 1..Len(ms) : ms[i].maxTokens >= estimatedTokens}
  IN  IF hasDefault /\ estimatedTokens > modelsGet(ms, cfg.defaultModel).maxTokens
                    /\ fits # {}
      THEN ms[pickFirst(fits)].name
      ELSE selected

\* checkRateLimit, cleaning: the times still inside the window.
validTimes(times, now, window) == SelectSeq(times, LAMBDA time : time > now - window)

overLimitOffByOne(times, requests) == Len(times) > requests

\* checkRateLimit, the limit test.
overLimit(times, requests) == Len(times) >= requests

\* `this.requestTimes.get(name) || []`: checkRateLimit records every call
\* under config.defaultModel, the only key the Map ever gets.
requestTimesGet(cfg, times, name) ==
  IF name = cfg.defaultModel THEN times ELSE <<>>

RouterInitialize ==
  /\ zai' = TRUE
  /\ models' = registerAll(models, DefaultModels)
  /\ UNCHANGED <<routerConfig, requestTimes, passed, routerLast>>
  /\ UNCHANGED outsideRouter

RegisterModel(mc) ==
  /\ models' = modelsSet(models, mc)
  /\ UNCHANGED <<routerConfig, zai, requestTimes, passed, routerLast>>
  /\ UNCHANGED outsideRouter

\* generateResponse(req); the backend call succeeds at attempt succeedsAt of
\* executeWithRetry, or at none when succeedsAt is 0.
GenerateResponse(req, succeedsAt) ==
  LET call == [NoRouterCall EXCEPT !.length = textLength(req)]
      valid == validTimes(requestTimes, clock, routerConfig.window)
      modelName == selectModel(routerConfig, models, req)
  IN  /\ IF ~zai
         THEN /\ succeedsAt = 1
              /\ routerLast' = [call EXCEPT !.ret = "not-initialized"]
              /\ UNCHANGED <<requestTimes, passed>>
         ELSE IF overLimit(valid, routerConfig.requests)
         THEN /\ succeedsAt = 1
              /\ requestTimes' = valid
              /\ routerLast' = [call EXCEPT !.ret = "rate-limit"]
              /\ UNCHANGED passed
         ELSE /\ requestTimes' = Append(valid, clock)
              /\ passed' = Append(passed, clock)
              /\ IF ~isRegistered(models, modelName)
                 THEN /\ succeedsAt = 1
                      /\ routerLast' = [call EXCEPT !.ret = "model-not-found",
                                                    !.model = modelName]
                 ELSE routerLast' =
                        [call EXCEPT !.model = modelName,
                                     !.ret = IF succeedsAt = 0 THEN "error" ELSE "ok",
                                     !.backend = IF succeedsAt = 0
                                                 THEN routerConfig.maxRetries
                                                 ELSE succeedsAt]
      /\ UNCHANGED <<routerConfig, zai, models>>
      /\ UNCHANGED outsideRouter

RouterNext ==
  \/ Tick
  \/ RouterInitialize
  \/ \E mc \in ExtraModels : RegisterModel(mc)
  \/ \E req \in Requests, succeedsAt \in 0..routerConfig.maxRetries :
       GenerateResponse(req, succeedsAt)

RouterSpecInit ==
  /\ IdleOrchestrator
  /\ clock = 0
  /\ ToolInit
  /\ RouterInit
  /\ MemIdle
  /\ FurtherIdle

RouterSpec == RouterSpecInit /\ [][RouterNext]_vars

(********************* ModelRouter.generateBatchResponses ******************)
\* generateBatchResponses is called with up to MaxBatch requests.
MaxBatch == 7

\* const concurrencyLimit = 5
concurrencyLimit == 5

\* The request at place i of a batch.
BatchRequest(i) ==
  IF i % 2 = 1 THEN <<4 * TokensSmall>> ELSE <<2 * TokensDefault, 2 * TokensDefault>>

Batches == {[i \in 1..n |-> BatchRequest(i)] : n \in 0..MaxBatch}

\* The response pushed for a rejected member; content '' is modelled as 0.
ErrorResponse ==
  [content |-> 0, totalTokens |-> 0, model |-> "error", finishReason |-> "error"]

\* transformResponse of the backend's reply to the request at place i, whose
\* content is modelled as i.
transformResponse(i, modelName) ==
  [content |-> i, totalTokens |-> estimateTokenCount(batchRequests[i]),
   model |-> modelName, finishReason |-> "stop"]

Unstarted == [state |-> "unstarted", model |-> "", value |-> ErrorResponse]

\* generateResponse up to its first await: the promise it leaves and the
\* request times after checkRateLimit.
startResponse(req, times, now) ==
  LET valid == validTimes(times, now, routerConfig.window)
      modelName == selectModel(routerConfig, models, req)
      rejected == [Unstarted EXCEPT !.state = "rejected"]
  IN  IF ~zai
      THEN [promise |-> rejected, times |-> times, passes |-> FALSE]
      ELSE IF overLimit(valid, routerConfig.requests)
      THEN [promise |-> rejected, times |-> valid, passes |-> FALSE]
      ELSE [promise |-> IF isRegistered(models, modelName)
                        THEN [Unstarted EXCEPT !.state = "pending", !.model = modelName]
                        ELSE rejected,
            times |-> Append(valid, now), passes |-> TRUE]

\* chunk.map(request => this.generateResponse(request)): the calls are made
\* one after the other, each up to its first await.
RECURSIVE startChunk(_, _, _)
startChunk(chunk, times, now) ==
  IF chunk = <<>>
  THEN [promises |-> <<>>, times |-> times, passed |-> <<>>]
  ELSE LET first == startResponse(Head(chunk), times, now)
           rest == startChunk(Tail(chunk), first.times, now)
       IN  [promises |-> <<first.promise>> \o rest.promises,
            times |-> rest.times,
            passed |-> (IF first.passes THEN <<now>> ELSE <<>>) \o rest.passed]

Min(a, b) == IF a <= b THEN a ELSE b

\* chunkArray: the slices [i, i + size) of the array, from place i on.
RECURSIVE chunkArray(_, _, _)
chunkArray(array, size, i) ==
  IF i > Len(array) THEN <<>>
  ELSE <<SubSeq(array, i, Min(i + size - 1, Len(array)))>>
         \o chunkArray(array, size, i + size)

collectFulfilled(settled) ==
  LET fulfilled == SelectSeq(settled, LAMBDA result : result.state = "fulfilled")
  IN  [j \in 1..Len(fulfilled) |-> fulfilled[j].value]

\* The loop over chunkResponses: a value or the error response for each.
collect(settled) ==
  [j \in 1..Len(settled) |->
     IF settled[j].state = "fulfilled" THEN settled[j].value ELSE ErrorResponse]

\* The places of the batch whose promises exist.
started == {i \in 1..Len(promises) : promises[i].state # "unstarted"}

inFlight == {i \in 1..Len(promises) : promises[i].state = "pending"}

\* The loop's next chunk: its calls are made and their promises awaited.
startNext(reqs, done) ==
  LET chunks == chunkArray(reqs, concurrencyLimit, 1)
      chunkNo == (done \div concurrencyLimit) + 1
      begun == startChunk(chunks[chunkNo], requestTimes, clock)
  IN  /\ promises' = [i \in 1..Len(reqs) |->
                        IF i <= done THEN promises[i]
                        ELSE IF i <= done + Len(chunks[chunkNo])
                        THEN begun.promises[i - done]
                        ELSE Unstarted]
      /\ requestTimes' = begun.times
      /\ passed' = passed \o begun.passed

outsideBatch ==
  <<clock, orchVars, toolVars, memVars, agentVars, budgetVars, repoVars, vectorVars,
    coderVars, lateVars>>

\* generateBatchResponses(reqs) up to its first await, or to its return for
\* no requests.
GenerateBatchResponses(reqs) ==
  /\ batchPhase # "running"
  /\ batchRequests' = reqs
  /\ responses' = <<>>
  /\ IF reqs = <<>>
     THEN /\ batchPhase' = "returned"
          /\ promises' = <<>>
          /\ UNCHANGED <<requestTimes, passed>>
     ELSE /\ batchPhase' = "running"
          /\ startNext(reqs, 0)
  /\ UNCHANGED <<routerConfig, zai, models, routerLast>>
  /\ UNCHANGED outsideBatch

\* The generateResponse call of place i ends: executeWithRetry returned and
\* the response is transformed (ok), or it threw after its last attempt.
MemberSettles(i, ok) ==
  /\ batchPhase = "running"
  /\ i \in inFlight
  /\ promises' = [promises EXCEPT ![i] =
                    IF ok THEN [@ EXCEPT !.state = "fulfilled",
                                         !.value = transformResponse(i, promises[i].model)]
                    ELSE [@ EXCEPT !.state = "rejected"]]
  /\ UNCHANGED <<batchPhase, batchRequests, responses>>
  /\ UNCHANGED routerVars
  /\ UNCHANGED outsideBatch

\* Promise.allSettled(chunkPromises) resolves: the results are pushed, and
\* the next chunk is started or the responses are returned.
ChunkSettled ==
  LET done == Cardinality(started)
  IN  /\ batchPhase = "running"
      /\ inFlight = {}
      /\ responses' = responses \o collect(SubSeq(promises, Len(responses) + 1, done))
      /\ IF done < Len(batchRequests)
         THEN /\ startNext(batchRequests, done)
              /\ UNCHANGED batchPhase
         ELSE /\ batchPhase' = "returned"
              /\ UNCHANGED <<promises, requestTimes, passed>>
      /\ UNCHANGED <<batchRequests, routerConfig, zai, models, routerLast>>
      /\ UNCHANGED outsideBatch

BatchNext ==
  \/ Tick
  \/ RouterInitialize
  \/ \E reqs \in Batches : GenerateBatchResponses(reqs)
  \/ \E i \in 1..MaxBatch, ok \in BOOLEAN : MemberSettles(i, ok)
  \/ ChunkSettled

\* A fresh router whose rate limit is below or above the size of a chunk.
BatchSpecInit ==
  /\ IdleOrchestrator
  /\ clock = 0
  /\ ToolInit
  /\ routerConfig \in {[cfg EXCEPT !.requests = n] :
                         cfg \in RouterConfigs, n \in {MaxRateRequests, MaxBatch + 1}}
  /\ routerConfig.defaultModel = "deepseek-coder"
  /\ zai = FALSE
  /\ models = <<>>
  /\ requestTimes = <<>>
  /\ passed = <<>>
  /\ routerLast = NoRouterCall
  /\ MemIdle
  /\ FurtherIdle

BatchSpec == BatchSpecInit /\ [][BatchNext]_vars

(********************* ModelRouter.selectModel, cost budget ****************)
\* config.costBudget: undefined, 0 or an amount in the unit of ModelConfig.
CostBudgets == {<<>>, <<0>>, <<30>>, <<50>>}

\* Requests of one and of two estimated tokens.
BudgetRequests == {<<4>>, <<8>>}

\* usage.totalTokens of a backend response.
TotalTokens == {1, 2}

\* `if (this.config.costBudget)`: undefined and 0 are falsy.
hasBudget(budget) == budget # <<>> /\ budget[1] # 0

\* models.get(name)?.costPerToken || 0
costOf(ms, name) == IF isRegistered(ms, name) THEN modelsGet(ms, name).costPerToken ELSE 0

\* selectModel: the cost budget step on top of the selection made so far.
selectModelBudget(cfg, ms, req, budget, cost) ==
  LET selected == selectModel(cfg, ms, req)
      estimatedTokens == estimateTokenCount(req)
      estimatedCost == estimatedTokens * costOf(ms, selected)
      cheaper == {i \in 1..Len(ms) :
                    cost + estimatedTokens * ms[i].costPerToken <= budget[1]}
  IN  IF hasBudget(budget) /\ cost + estimatedCost > budget[1] /\ cheaper # {}
      THEN ms[pickFirst(cheaper)].name
      ELSE selected

\* updateMetrics: the running cost after a response of the model.
updateMetrics(cost, ms, modelName, totalTokens) ==
  IF costOf(ms, modelName) # 0 THEN cost + totalTokens * costOf(ms, modelName) ELSE cost

outsideBudget ==
  <<clock, orchVars, toolVars, memVars, agentVars, batchVars, repoVars, vectorVars,
    coderVars, lateVars>>

\* generateResponse(req) of a router with config.costBudget; the backend
\* answers with totalTokens tokens when succeeds, else every attempt fails.
BudgetedGenerateResponse(req, succeeds, totalTokens) ==
  LET call == [NoRouterCall EXCEPT !.length = textLength(req)]
      valid == validTimes(requestTimes, clock, routerConfig.window)
      modelName == selectModelBudget(routerConfig, models, req, costBudget, metricsCost)
  IN  /\ IF ~zai
         THEN /\ succeeds /\ totalTokens = 1
              /\ routerLast' = [call EXCEPT !.ret = "not-initialized"]
              /\ UNCHANGED <<requestTimes, passed, metricsCost>>
         ELSE IF overLimit(valid, routerConfig.requests)
         THEN /\ succeeds /\ totalTokens = 1
              /\ requestTimes' = valid
              /\ routerLast' = [call EXCEPT !.ret = "rate-limit"]
              /\ UNCHANGED <<passed, metricsCost>>
         ELSE /\ requestTimes' = Append(valid, clock)
              /\ passed' = Append(passed, clock)
              /\ IF ~isRegistered(models, modelName)
                 THEN /\ succeeds /\ totalTokens = 1
                      /\ routerLast' = [call EXCEPT !.ret = "model-not-found",
                                                    !.model = modelName]
                      /\ UNCHANGED metricsCost
                 ELSE /\ routerLast' =
                           [call EXCEPT !.model = modelName,
                                        !.ret = IF succeeds THEN "ok" ELSE "error",
                                        !.backend = IF succeeds THEN 1
                                                    ELSE routerConfig.maxRetries]
                      /\ IF succeeds
                         THEN metricsCost' =
                                updateMetrics(metricsCost, models, modelName, totalTokens)
                         ELSE /\ totalTokens = 1
                              /\ UNCHANGED metricsCost
      /\ UNCHANGED <<routerConfig, zai, models, costBudget>>
      /\ UNCHANGED outsideBudget

BudgetNext ==
  \/ Tick
  \/ RouterInitialize
  \/ \E mc \in ExtraModels : RegisterModel(mc)
  \/ \E req \in BudgetRequests, succeeds \in BOOLEAN, totalTokens \in TotalTokens :
       BudgetedGenerateResponse(req, succeeds, totalTokens)

\* A fresh router with any of the cost budgets.
BudgetSpecInit ==
  /\ IdleOrchestrator
  /\ clock = 0
  /\ ToolInit
  /\ RouterInit
  /\ MemIdle
  /\ AgentInit
  /\ BatchIdle
  /\ RepoIdle
  /\ VectorIdle
  /\ CoderIdle
  /\ LateIdle
  /\ costBudget \in CostBudgets
  /\ metricsCost = 0

BudgetSpec == BudgetSpecInit /\ [][BudgetNext]_vars

\* Overlapping executeTool calls, and generateResponse calls of a router.
OverlapNext ==
  \/ RegisterTool
  \/ RegisterToolAgain
  \/ \E c \in CallIds : ToolCallBegin(c)
  \/ \E c \in CallIds, outcome \in {"ok", "fail", "throw"} : ToolCallEnd(c, outcome)
  \/ Tick
  \/ RouterInitialize
  \/ \E req \in BudgetRequests : GenerateResponse(req, 1)

OverlapSpec == ToolSpecInit /\ [][OverlapNext]_vars

(************************* ModelRouter.metrics *****************************)
\* generateResponse calls counted by a MetricsSpec run.
MaxMetricCalls == 3

\* `this.metrics.latency.slice(-100)`
latencyKept == 100

\* A number or NaN.
Num(n) == [nan |-> FALSE, n |-> n]
NaN == [nan |-> TRUE, n |-> 0]

\* a + b for numbers a and b of that kind.
plus(a, b) == IF a.nan \/ b.nan THEN NaN ELSE Num(a.n + b.n)

\* The usage of the backend's reply as updateMetrics finds it: no `usage`,
\* a usage with total_tokens only (the field transformResponse reads), or a
\* usage with totalTokens (the field updateMetrics reads).
Usages ==
  {[shape |-> "none", n |-> 0]}
    \cup [shape : {"total_tokens", "totalTokens"}, n : TotalTokens]

\* response.usage.totalTokens of a reply that has a usage.
totalTokensOf(usage) == IF usage.shape = "totalTokens" THEN Num(usage.n) ELSE NaN

\* updateMetrics(response, latency) with the backend's reply: the metrics
\* it leaves and whether it threw.  The reply's model is the model asked for.
updateRouterMetrics(m, ms, modelName, usage) ==
  LET counted == [m EXCEPT !.requests = @ + 1]
      costPerToken == costOf(ms, modelName)
  IN  IF usage.shape = "none"
      THEN [metrics |-> counted, thrown |-> TRUE]
      ELSE [metrics |->
              [counted EXCEPT
                 !.tokensUsed = plus(@, totalTokensOf(usage)),
                 !.latency = IF @ + 1 > latencyKept THEN latencyKept ELSE @ + 1,
                 !.cost = IF costPerToken # 0
                          THEN IF usage.shape = "totalTokens"
                               THEN plus(@, Num(usage.n * costPerToken))
                               ELSE NaN
                          ELSE @],
            thrown |-> FALSE]

\* generateResponse's catch block.
countError(m) == [m EXCEPT !.errors = @ + 1]

outsideMetrics ==
  <<clock, orchVars, toolVars, memVars, agentVars, batchVars, budgetVars, repoVars,
    vectorVars, coderVars, retry, toolCalls, toolGen>>

\* generateResponse(req) with its metrics; the backend answers with a reply
\* of the given usage when succeeds, else every attempt fails.
MeteredGenerateResponse(req, succeeds, usage) ==
  LET valid == validTimes(requestTimes, clock, routerConfig.window)
      modelName == selectModel(routerConfig, models, req)
      updated == updateRouterMetrics(routerMetrics, models, modelName, usage)
      call(ret) == [ret |-> ret, usage |-> usage]
  IN  /\ routerMetrics.requests + routerMetrics.errors < MaxMetricCalls
      /\ ~succeeds => usage.shape = "none"
      /\ IF ~zai
         THEN /\ ~succeeds
              /\ metricsLast' = call("not-initialized")
              /\ UNCHANGED <<requestTimes, passed, routerMetrics>>
         ELSE IF overLimit(valid, routerConfig.requests)
         THEN /\ ~succeeds
              /\ requestTimes' = valid
              /\ routerMetrics' = countError(routerMetrics)
              /\ metricsLast' = call("rate-limit")
              /\ UNCHANGED passed
         ELSE /\ requestTimes' = Append(valid, clock)
              /\ passed' = Append(passed, clock)
              /\ IF ~isRegistered(models, modelName)
                 THEN /\ ~succeeds
                      /\ routerMetrics' = countError(routerMetrics)
                      /\ metricsLast' = call("model-not-found")
                 ELSE IF ~succeeds
                 THEN /\ routerMetrics' = countError(routerMetrics)
                      /\ metricsLast' = call("error")
                 ELSE IF updated.thrown
                 THEN /\ routerMetrics' = countError(updated.metrics)
                      /\ metricsLast' = call("type-error")
                 ELSE /\ routerMetrics' = updated.metrics
                      /\ metricsLast' = call("ok")
      /\ UNCHANGED <<routerConfig, zai, models, routerLast>>
      /\ UNCHANGED outsideMetrics

MetricsNext ==
  \/ Tick
  \/ RouterInitialize
  \/ \E req \in BudgetRequests, succeeds \in BOOLEAN, usage \in Usages :
       MeteredGenerateResponse(req, succeeds, usage)

MetricsSpec == RouterSpecInit /\ [][MetricsNext]_vars

(********************** ModelRouter.executeWithRetry ***********************)
\* config.maxRetries ranges over 1..MaxRouterRetries.
MaxRouterRetries == 6

ErrRequestTimeout == "Request timeout"
ErrBackend == "backend error"

\* The delay without its ceiling.
backoffUncapped(n) == 1000 * 2^(n - 1)

\* Math.min(1000 * Math.pow(2, attempt - 1), 10000) for attempt n.
backoff(n) == Min(1000 * 2^(n - 1), 10000)

outsideRetry ==
  <<clock, orchVars, toolVars, routerVars, memVars, agentVars, batchVars, budgetVars,
    repoVars, vectorVars, coderVars, routerMetrics, metricsLast, toolCalls, toolGen>>

\* generateResponse has reached executeWithRetry: the first attempt's
\* backend call and its timer are started.
ExecuteWithRetryBegin ==
  /\ retry.phase = "idle"
  /\ zai
  /\ retry' = [retry EXCEPT !.phase = "attempt", !.attempt = 1]
  /\ UNCHANGED outsideRetry

\* The backend call of the pending attempt resolves before its timer fires:
\* executeWithRetry returns its result.
RequestAnswers ==
  /\ retry.phase = "attempt"
  /\ retry' = [retry EXCEPT !.phase = "returned", !.ends = Append(@, "ok")]
  /\ UNCHANGED outsideRetry

\* executeWithRetry's catch block for the pending attempt, which ended with
\* the error `err`: the delay before the next attempt, or the rethrow after
\* the loop.
attemptCaught(cfg, r, err) ==
  IF r.attempt < cfg.maxRetries
  THEN [r EXCEPT !.phase = "backoff", !.ends = Append(@, err),
                 !.waits = Append(@, backoff(r.attempt))]
  ELSE [r EXCEPT !.phase = "thrown", !.ends = Append(@, err)]

\* The backend call of the pending attempt rejects before its timer fires.
RequestRejects ==
  /\ retry.phase = "attempt"
  /\ retry' = attemptCaught(routerConfig, retry, ErrBackend)
  /\ UNCHANGED outsideRetry

\* The timer of the pending attempt fires first, after config.timeout: the
\* race rejects with 'Request timeout'.
RequestTimesOut ==
  /\ retry.phase = "attempt"
  /\ retry' = attemptCaught(routerConfig, retry, ErrRequestTimeout)
  /\ UNCHANGED outsideRetry

\* The delay has passed: the loop starts the next attempt.
BackoffElapses ==
  /\ retry.phase = "backoff"
  /\ retry' = [retry EXCEPT !.phase = "attempt", !.attempt = @ + 1]
  /\ UNCHANGED outsideRetry

RetryNext ==
  \/ ExecuteWithRetryBegin
  \/ RequestAnswers
  \/ RequestRejects
  \/ RequestTimesOut
  \/ BackoffElapses

\* An initialized router with any number of attempts, before a
\* generateResponse call.
RetrySpecInit ==
  /\ IdleOrchestrator
  /\ clock = 0
  /\ ToolInit
  /\ routerConfig \in {[cfg EXCEPT !.maxRetries = n] :
                         cfg \in RouterConfigs, n \in 1..MaxRouterRetries}
  /\ routerConfig.defaultModel = "deepseek-coder"
  /\ routerConfig.requests = MaxRateRequests
  /\ zai = TRUE
  /\ models = registerAll(<<>>, DefaultModels)
  /\ requestTimes = <<>>
  /\ passed = <<>>
  /\ routerLast = NoRouterCall
  /\ MemIdle
  /\ FurtherIdle

RetrySpec == RetrySpecInit /\ [][RetryNext]_vars

(***************************** MemoryManager *******************************)
\* A task memory holds at most MaxEntries steps, results and audit entries.
MaxEntries == 1

MemTaskIds == {1, 2}
SweepTaskIds == {1, 2, 3}
RepoIds == {1, 2}
StepIds == 1..(MaxEntries + 1)

ErrTaskMemory == "Task memory not found"
ErrTaskStep == "Task step not found"

MemCall(op, arg, ret) == [op |-> op, arg |-> arg, ret |-> ret]

\* The TaskMemory createTaskMemory builds.
NewTaskMemory(t, now) ==
  [taskId |-> t, steps |-> <<>>, results |-> 0, auditLog |-> 0, updatedAt |-> now]

hasTaskMemory(mems, t) == \E i \in 1..Len(mems) : mems[i].taskId = t

missingNever(mems, t) == FALSE

\* `!taskMemory` after this.taskMemories.get(taskId)
missing(mems, t) == ~hasTaskMemory(mems, t)

\* this.taskMemories.get(taskId) of a task that has a memory.
taskMemoryOf(mems, t) == mems[CHOOSE i \in 1..Len(mems) : mems[i].taskId = t]

\* The TaskMemory object of task t, held by the Map, changed to `new`.
inPlace(mems, t, new) ==
  [i \in 1..Len(mems) |-> IF mems[i].taskId = t THEN new ELSE mems[i]]

\* Map.set: a known key keeps its place, a new key goes last.
taskMemoriesSet(mems, new) ==
  IF hasTaskMemory(mems, new.taskId)
  THEN inPlace(mems, new.taskId, new)
  ELSE Append(mems, new)

entryCount(mems, t) ==
  LET own == SelectSeq(mems, LAMBDA m : m.taskId = t)
  IN  IF own = <<>> THEN 0
      ELSE Len(own[1].steps) + own[1].results + own[1].auditLog

hasStep(mems, t, stepId) ==
  \E i \in 1..Len(mems) :
    /\ mems[i].taskId = t
    /\ \E k \in 1..Len(mems[i].steps) : mems[i].steps[k].id = stepId

\* A method that looks the task memory up, throws when there is none and
\* otherwise changes it to `changed` and sets updatedAt.
taskMemoryCall(op, t, arg, changed) ==
  /\ IF missing(memTaskMemories, t)
     THEN /\ memLast' = MemCall(op, arg, ErrTaskMemory)
          /\ UNCHANGED memTaskMemories
     ELSE /\ memLast' = MemCall(op, arg, "ok")
          /\ memTaskMemories' =
               inPlace(memTaskMemories, t, [changed EXCEPT !.updatedAt = clock])
  /\ UNCHANGED <<memConfig, repoMemories, memory, lastStore, outsideMem>>

MemCreateTaskMemory(t) ==
  /\ memTaskMemories' = taskMemoriesSet(memTaskMemories, NewTaskMemory(t, clock))
  /\ memLast' = MemCall("createTaskMemory", <<t>>, "ok")
  /\ UNCHANGED <<memConfig, repoMemories, memory, lastStore, outsideMem>>

GetTaskMemory(t) ==
  taskMemoryCall("getTaskMemory", t, <<t>>, taskMemoryOf(memTaskMemories, t))

AddTaskStep(t) ==
  /\ entryCount(memTaskMemories, t) < MaxEntries
  /\ taskMemoryCall("addTaskStep", t, <<t>>,
       [taskMemoryOf(memTaskMemories, t) EXCEPT !.steps =
          Append(@, [id |-> Len(@) + 1, status |-> "pending"])])

UpdateTaskStep(t, stepId) ==
  IF ~missing(memTaskMemories, t) /\ ~hasStep(memTaskMemories, t, stepId)
  THEN /\ memLast' = MemCall("updateTaskStep", <<t, stepId>>, ErrTaskStep)
       /\ UNCHANGED <<memTaskMemories, memConfig, repoMemories, memory,
                      lastStore, outsideMem>>
  ELSE taskMemoryCall("updateTaskStep", t, <<t, stepId>>,
         [taskMemoryOf(memTaskMemories, t) EXCEPT !.steps =
            [k \in 1..Len(@) |->
               IF @[k].id = stepId
               THEN [@[k] EXCEPT !.status = "completed"]
               ELSE @[k]]])

StoreTaskResult(t) ==
  /\ entryCount(memTaskMemories, t) < MaxEntries
  /\ taskMemoryCall("storeTaskResult", t, <<t>>,
       [taskMemoryOf(memTaskMemories, t) EXCEPT !.results = @ + 1])

AddAuditEntry(t) ==
  /\ entryCount(memTaskMemories, t) < MaxEntries
  /\ taskMemoryCall("addAuditEntry", t, <<t>>,
       [taskMemoryOf(memTaskMemories, t) EXCEPT !.auditLog = @ + 1])

\* The RepoMemory createRepoMemory builds; the values of the sections'
\* fields are written as strings.
NewRepoMemory(r, now) ==
  [repoId |-> r,
   structure |-> [files |-> "[]", directories |-> "[]", totalSize |-> "0",
                  languageStats |-> "{}"],
   symbols |-> [symbols |-> "[]", references |-> "[]"],
   dependencies |-> [nodes |-> "[]", edges |-> "[]", cycles |-> "[]"],
   history |-> [commits |-> "[]", branches |-> "[]", tags |-> "[]"],
   metadata |-> [name |-> ToString(r), authors |-> "[]", technologies |-> "[]",
                 complexity |-> "0", maintainability |-> "0", testCoverage |-> "0"],
   lastUpdated |-> now]

CreateRepoMemory(r) ==
  /\ repoMemories' =
       IF \E i \in 1..Len(repoMemories) : repoMemories[i].repoId = r
       THEN [i \in 1..Len(repoMemories) |->
               IF repoMemories[i].repoId = r
               THEN NewRepoMemory(r, clock)
               ELSE repoMemories[i]]
       ELSE Append(repoMemories, NewRepoMemory(r, clock))
  /\ memLast' = MemCall("createRepoMemory", <<r>>, "ok")
  /\ UNCHANGED <<memConfig, memTaskMemories, memory, lastStore, outsideMem>>

\* The positions 1..n in the order Array.sort leaves them in when comparing
\* the times `at`: ascending, equal times in their original order.
RECURSIVE sortedByTime(_, _)
sortedByTime(n, at) ==
  IF n = 0 THEN <<>>
  ELSE LET before == sortedByTime(n - 1, at)
           k == Cardinality({p \in 1..Len(before) : at[before[p]] <= at[n]})
       IN  SubSeq(before, 1, k) \o <<n>> \o SubSeq(before, k + 1, Len(before))

insertionOrder(at) == [i \in 1..Len(at) |-> i]

evictionOrder(at) == sortedByTime(Len(at), at)

\* entries.slice(0, entries.length - max) of the sorted entries, deleted.
evict(entries, at, max) ==
  IF Len(entries) > max
  THEN LET order == evictionOrder(at)
           toRemove == {order[k] : k \in 1..(Len(entries) - max)}
           kept == SelectSeq([i \in 1..Len(entries) |-> i],
                             LAMBDA i : i \notin toRemove)
       IN  [k \in 1..Len(kept) |-> entries[kept[k]]]
  ELSE entries

Ttl(n) == [defined |-> TRUE, n |-> n]
NoTtl == [defined |-> FALSE, n |-> 0]

\* `entry.ttl && now - entry.timestamp.getTime() > entry.ttl`: an undefined
\* ttl and a ttl of 0 are falsy.
expired(entry, now) ==
  /\ entry.ttl.defined
  /\ entry.ttl.n # 0
  /\ now - entry.timestamp > entry.ttl.n

\* `${type}-${key}`: no type contains '-', so the id determines both.
entryId(type, key) == <<type, key>>

hasEntry(mem, id) == \E i \in 1..Len(mem) : mem[i].id = id

entryOf(mem, id) == mem[CHOOSE i \in 1..Len(mem) : mem[i].id = id]

EntryKeys == {<<"task", "a">>, <<"repo", "a">>}
EntryValues == {"v1", "v2"}
Ttls == {NoTtl, Ttl(0), Ttl(1)}

Store(key, value, type, ttl) ==
  LET id == entryId(type, key)
      entry == [id |-> id, value |-> value, timestamp |-> clock, ttl |-> ttl]
  IN  /\ memory' =
           IF hasEntry(memory, id)
           THEN [i \in 1..Len(memory) |->
                   IF memory[i].id = id THEN entry ELSE memory[i]]
           ELSE Append(memory, entry)
      /\ lastStore' =
           [x \in DOMAIN lastStore \cup {id} |->
              IF x = id THEN [value |-> value, at |-> clock, ttl |-> ttl]
              ELSE lastStore[x]]
      /\ memLast' = MemCall("store", id, "ok")
      /\ UNCHANGED <<memConfig, memTaskMemories, repoMemories, outsideMem>>

Retrieve(key, type) ==
  LET id == entryId(type, key)
  IN  /\ IF ~hasEntry(memory, id)
         THEN /\ memLast' = MemCall("retrieve", id, "null")
              /\ UNCHANGED memory
         ELSE IF expired(entryOf(memory, id), clock)
         THEN /\ memLast' = MemCall("retrieve", id, "null")
              /\ memory' = SelectSeq(memory, LAMBDA e : e.id # id)
         ELSE /\ memLast' = MemCall("retrieve", id, entryOf(memory, id).value)
              /\ UNCHANGED memory
      /\ UNCHANGED <<memConfig, memTaskMemories, repoMemories, lastStore, outsideMem>>

\* The callback of the cleanup interval (config.enableVectorStore is off);
\* what it returns to nobody it logs: the ids it has removed.
CleanupExpiredEntries ==
  /\ memTaskMemories' =
       evict(memTaskMemories,
             [i \in 1..Len(memTaskMemories) |-> memTaskMemories[i].updatedAt],
             memConfig.maxTaskMemory)
  /\ repoMemories' =
       evict(repoMemories,
             [i \in 1..Len(repoMemories) |-> repoMemories[i].lastUpdated],
             memConfig.maxRepoMemory)
  /\ memory' = SelectSeq(memory, LAMBDA e : ~expired(e, clock))
  /\ memLast' =
       MemCall("cleanupExpiredEntries",
               <<{memTaskMemories[i].taskId : i \in 1..Len(memTaskMemories)}
                   \ {memTaskMemories'[i].taskId : i \in 1..Len(memTaskMemories')},
                 {repoMemories[i].repoId : i \in 1..Len(repoMemories)}
                   \ {repoMemories'[i].repoId : i \in 1..Len(repoMemories')}>>,
               "ok")
  /\ UNCHANGED <<memConfig, lastStore, outsideMem>>

MemShutdown ==
  /\ memTaskMemories' = <<>>
  /\ repoMemories' = <<>>
  /\ memory' = <<>>
  /\ lastStore' = <<>>
  /\ memLast' = MemCall("shutdown", <<>>, "ok")
  /\ UNCHANGED <<memConfig, outsideMem>>

MemSpecInit ==
  /\ IdleOrchestrator
  /\ clock = 0
  /\ ToolInit
  /\ RouterIdle
  /\ MemInit
  /\ FurtherIdle

\* The methods on task memories, the sweep and shutdown.
TaskMemoryNext ==
  \/ Tick
  \/ \E t \in MemTaskIds :
       \/ MemCreateTaskMemory(t)
       \/ GetTaskMemory(t)
       \/ AddTaskStep(t)
       \/ \E stepId \in StepIds : UpdateTaskStep(t, stepId)
       \/ StoreTaskResult(t)
       \/ AddAuditEntry(t)
  \/ CleanupExpiredEntries
  \/ MemShutdown

TaskMemorySpec == MemSpecInit /\ [][TaskMemoryNext]_vars

\* Task and repo memories created and refreshed at different times, and the
\* sweep.
SweepNext ==
  \/ Tick
  \/ \E t \in SweepTaskIds : MemCreateTaskMemory(t)
  \/ \E r \in RepoIds : CreateRepoMemory(r)
  \/ CleanupExpiredEntries

SweepSpec == MemSpecInit /\ [][SweepNext]_vars

\* The generic entries.
StoreNext ==
  \/ Tick
  \/ \E id \in EntryKeys, value \in EntryValues, ttl \in Ttls :
       Store(id[2], value, id[1], ttl)
  \/ \E id \in EntryKeys : Retrieve(id[2], id[1])
  \/ CleanupExpiredEntries
  \/ MemShutdown

StoreSpec == MemSpecInit /\ [][StoreNext]_vars

(********************** MemoryManager, repo memories ***********************)
\* A behaviour makes at most MaxRepoUpdates updateRepo* calls.
MaxRepoUpdates == 3

ErrRepoMemory == "Repo memory not found"

hasRepoMemory(repos, r) == \E i \in 1..Len(repos) : repos[i].repoId = r

\* A partial update: values for some of the fields of a section.
partialOf(fields) == [fields -> {"new"}]

StructurePartials == partialOf({}) \cup partialOf({"files"}) \cup partialOf({"files", "totalSize"})
SymbolsPartials == partialOf({}) \cup partialOf({"symbols"})
DependenciesPartials == partialOf({"edges"}) \cup partialOf({"nodes", "cycles"})
HistoryPartials == partialOf({"commits"}) \cup partialOf({"branches", "tags"})
MetadataPartials == partialOf({"complexity"}) \cup partialOf({"name", "authors"})

replaced(section, partial) == partial

\* { ...section, ...partial }
merged(section, partial) ==
  [f \in DOMAIN section \cup DOMAIN partial |->
     IF f \in DOMAIN partial THEN partial[f] ELSE section[f]]

\* Every updateRepo* method: not found, or the merge into the repo memory
\* `updated` and the new lastUpdated.
updateRepo(op, r, partial, updated) ==
  /\ repoUpdates < MaxRepoUpdates
  /\ repoUpdates' = repoUpdates + 1
  /\ IF ~hasRepoMemory(repoMemories, r)
     THEN /\ memLast' = MemCall(op, <<r, partial>>, ErrRepoMemory)
          /\ UNCHANGED repoMemories
     ELSE /\ repoMemories' = [i \in 1..Len(repoMemories) |->
                                IF repoMemories[i].repoId = r
                                THEN [updated EXCEPT !.lastUpdated = clock]
                                ELSE repoMemories[i]]
          /\ memLast' = MemCall(op, <<r, partial>>, "ok")
  /\ UNCHANGED <<memConfig, memTaskMemories, memory, lastStore>>
  /\ UNCHANGED <<clock, orchVars, toolVars, routerVars, agentVars, batchVars, budgetVars,
                  vectorVars, coderVars, lateVars>>

repoMemoryOf(r) ==
  repoMemories[CHOOSE i \in 1..Len(repoMemories) : repoMemories[i].repoId = r]

UpdateRepoStructure(r, partial) ==
  updateRepo("updateRepoStructure", r, partial,
             [repoMemoryOf(r) EXCEPT !.structure = merged(@, partial)])

UpdateRepoSymbols(r, partial) ==
  updateRepo("updateRepoSymbols", r, partial,
             [repoMemoryOf(r) EXCEPT !.symbols = merged(@, partial)])

UpdateRepoDependencies(r, partial) ==
  updateRepo("updateRepoDependencies", r, partial,
             [repoMemoryOf(r) EXCEPT !.dependencies = merged(@, partial)])

UpdateRepoHistory(r, partial) ==
  updateRepo("updateRepoHistory", r, partial,
             [repoMemoryOf(r) EXCEPT !.history = merged(@, partial)])

UpdateRepoMetadata(r, partial) ==
  updateRepo("updateRepoMetadata", r, partial,
             [repoMemoryOf(r) EXCEPT !.metadata = merged(@, partial)])

RepoNext ==
  \/ Tick
  \/ \E r \in RepoIds : CreateRepoMemory(r)
  \/ \E r \in RepoIds, partial \in StructurePartials : UpdateRepoStructure(r, partial)
  \/ \E r \in RepoIds, partial \in SymbolsPartials : UpdateRepoSymbols(r, partial)
  \/ \E r \in RepoIds, partial \in DependenciesPartials : UpdateRepoDependencies(r, partial)
  \/ \E r \in RepoIds, partial \in HistoryPartials : UpdateRepoHistory(r, partial)
  \/ \E r \in RepoIds, partial \in MetadataPartials : UpdateRepoMetadata(r, partial)

RepoSpecInit == IdleOrchestrator /\ OutsideInit

RepoSpec == RepoSpecInit /\ [][RepoNext]_vars

(********************** MemoryManager, vector store ************************)
\* searchVectorStore is called with a limit of up to MaxLimit.
MaxLimit == 2

VectorIds == {"a", "b", "c"}

\* Vectors of two components, parallel, orthogonal and oblique to each
\* other, the zero vector and a vector of another length.
Vectors == {<<1, 0>>, <<2, 0>>, <<1, 1>>, <<0, 1>>, <<0, 0>>, <<1>>}

Queries == {<<1, 0>>, <<1, 1>>, <<0, 0>>}

\* vectorStoreConfig.similarityThreshold: 0.8 (the default), 0.5 and 0.
Thresholds == {<<4, 5>>, <<1, 2>>, <<0, 1>>}

RECURSIVE dotProduct(_, _)
dotProduct(a, b) ==
  IF a = <<>> THEN 0 ELSE Head(a) * Head(b) + dotProduct(Tail(a), Tail(b))

\* A similarity s is kept exactly, as the fraction num / den of its signed
\* square s * |s|, which has the order of s and is 1 where s is; den = 0
\* stands for NaN.
signedSquare(n) == IF n >= 0 THEN n * n ELSE 0 - n * n

calculateCosineSimilarity(a, b) ==
  IF Len(a) # Len(b)
  THEN [num |-> 0, den |-> 1]
  ELSE [num |-> signedSquare(dotProduct(a, b)),
        den |-> dotProduct(a, a) * dotProduct(b, b)]

thresholdOf(cfg) ==
  [num |-> signedSquare(cfg.similarityThreshold[1]),
   den |-> cfg.similarityThreshold[2] * cfg.similarityThreshold[2]]

\* x >= y on numbers; false when either is NaN.
atLeast(x, y) == x.den # 0 /\ y.den # 0 /\ x.num * y.den >= y.num * x.den

unsorted(results) == results

\* results.sort((a, b) => b.similarity - a.similarity): descending, equal
\* similarities in their original order.
RECURSIVE sortBySimilarity(_)
sortBySimilarity(results) ==
  IF results = <<>> THEN <<>>
  ELSE LET n == Len(results)
           before == sortBySimilarity(SubSeq(results, 1, n - 1))
           k == Cardinality({p \in 1..Len(before) :
                               atLeast(before[p].similarity, results[n].similarity)})
       IN  SubSeq(before, 1, k) \o <<results[n]>> \o SubSeq(before, k + 1, Len(before))

\* The loop of searchVectorStore over the store.
RECURSIVE matches(_, _, _)
matches(store, query, threshold) ==
  IF store = <<>> THEN <<>>
  ELSE LET similarity == calculateCosineSimilarity(query, Head(store).vector)
       IN  (IF atLeast(similarity, threshold)
            THEN <<[id |-> Head(store).id, similarity |-> similarity]>>
            ELSE <<>>) \o matches(Tail(store), query, threshold)

\* Map.set of the vector store.
vectorSet(store, entry) ==
  IF \E i \in 1..Len(store) : store[i].id = entry.id
  THEN [i \in 1..Len(store) |-> IF store[i].id = entry.id THEN entry ELSE store[i]]
  ELSE Append(store, entry)

outsideVector ==
  <<clock, orchVars, toolVars, routerVars, memVars, agentVars, batchVars, budgetVars,
    repoVars, coderVars, lateVars>>

AddToVectorStore(id, vector) ==
  /\ vectorStore' = IF vectorConfig.enableVectorStore
                    THEN vectorSet(vectorStore, [id |-> id, vector |-> vector])
                    ELSE vectorStore
  /\ vectorLast' = [NoVectorCall EXCEPT !.op = "add"]
  /\ UNCHANGED vectorConfig
  /\ UNCHANGED outsideVector

SearchVectorStore(query, limit) ==
  /\ vectorLast' =
       [op |-> "search", query |-> query, limit |-> limit,
        results |->
          IF vectorConfig.enableVectorStore
          THEN LET sorted == sortBySimilarity(
                               matches(vectorStore, query, thresholdOf(vectorConfig)))
               IN  SubSeq(sorted, 1, Min(limit, Len(sorted)))
          ELSE <<>>]
  /\ UNCHANGED <<vectorConfig, vectorStore>>
  /\ UNCHANGED outsideVector

VectorNext ==
  \/ \E id \in VectorIds, vector \in Vectors : AddToVectorStore(id, vector)
  \/ \E query \in Queries, limit \in 1..MaxLimit : SearchVectorStore(query, limit)

\* A MemoryManager with the vector store enabled or not and any threshold.
VectorSpecInit ==
  /\ IdleOrchestrator
  /\ clock = 0
  /\ ToolInit
  /\ RouterIdle
  /\ MemIdle
  /\ AgentInit
  /\ BatchIdle
  /\ BudgetIdle
  /\ RepoIdle
  /\ CoderIdle
  /\ LateIdle
  /\ vectorConfig \in [enableVectorStore : BOOLEAN, similarityThreshold : Thresholds]
  /\ vectorStore = <<>>
  /\ vectorLast = NoVectorCall

VectorSpec == VectorSpecInit /\ [][VectorNext]_vars

(******************************* BaseAgent *********************************)
\* onExecute runs at most MaxHookRuns times per agent.
MaxHookRuns == 1

AgentNames == {"coder", "planner"}

ErrNotInitialized == "Agent is not initialized"

AgentCall(op, a, thrown, ret) == [op |-> op, agent |-> a, thrown |-> thrown, ret |-> ret]

outsideAgent ==
  <<clock, orchVars, toolVars, routerVars, memVars, batchVars, budgetVars, repoVars,
    vectorVars, coderVars, lateVars>>

\* initialize() up to `await this.onInitialize()`.
AgentInitializeBegin(a) ==
  /\ baseAgents[a].initializing = 0
  /\ IF baseAgents[a].isInitialized
     THEN /\ agentLast' = AgentCall("initialize", a, FALSE, "ok")
          /\ UNCHANGED baseAgents
     ELSE /\ baseAgents' = [baseAgents EXCEPT ![a].initializing = 1]
          /\ agentLast' = AgentCall("initialize", a, FALSE, "pending")
  /\ UNCHANGED <<hookRuns, outsideAgent>>

\* onInitialize settles: initialize() sets isInitialized, or rejects.
AgentInitializeEnd(a, ok) ==
  /\ baseAgents[a].initializing = 1
  /\ baseAgents' =
       IF ok
       THEN [baseAgents EXCEPT ![a].initializing = 0, ![a].isInitialized = TRUE,
                               ![a].life = "initialized"]
       ELSE [baseAgents EXCEPT ![a].initializing = 0]
  /\ agentLast' = IF ok THEN AgentCall("initialize", a, FALSE, "ok")
                        ELSE AgentCall("initialize", a, TRUE, ErrAgent)
  /\ UNCHANGED <<hookRuns, outsideAgent>>

\* execute(task, context); onExecute returns a successful result ("ok"), a
\* result with success false ("soft") or throws.
AgentExecute(a, outcome) ==
  /\ IF ~baseAgents[a].isInitialized
     THEN /\ outcome = "ok"
          /\ agentLast' = AgentCall("execute", a, TRUE, ErrNotInitialized)
          /\ UNCHANGED hookRuns
     ELSE /\ hookRuns[a] < MaxHookRuns
          /\ hookRuns' = [hookRuns EXCEPT ![a] = @ + 1]
          /\ agentLast' = IF outcome = "throw"
                          THEN AgentCall("execute", a, TRUE, ErrAgent)
                          ELSE AgentCall("execute", a, FALSE, outcome)
  /\ UNCHANGED <<baseAgents, outsideAgent>>

\* shutdown() up to `await this.onShutdown()`.
AgentShutdownBegin(a) ==
  /\ baseAgents[a].shuttingDown = 0
  /\ IF ~baseAgents[a].isInitialized
     THEN /\ agentLast' = AgentCall("shutdown", a, FALSE, "ok")
          /\ UNCHANGED baseAgents
     ELSE /\ baseAgents' = [baseAgents EXCEPT ![a].shuttingDown = 1]
          /\ agentLast' = AgentCall("shutdown", a, FALSE, "pending")
  /\ UNCHANGED <<hookRuns, outsideAgent>>

\* onShutdown settles: shutdown() clears isInitialized, or rejects.
AgentShutdownEnd(a, ok) ==
  /\ baseAgents[a].shuttingDown = 1
  /\ baseAgents' =
       IF ok
       THEN [baseAgents EXCEPT ![a].shuttingDown = 0, ![a].isInitialized = FALSE,
                               ![a].life = "shutdown"]
       ELSE [baseAgents EXCEPT ![a].shuttingDown = 0]
  /\ agentLast' = IF ok THEN AgentCall("shutdown", a, FALSE, "ok")
                        ELSE AgentCall("shutdown", a, TRUE, ErrAgent)
  /\ UNCHANGED <<hookRuns, outsideAgent>>

AgentNext ==
  \E a \in AgentNames :
    \/ AgentInitializeBegin(a)
    \/ \E ok \in BOOLEAN : AgentInitializeEnd(a, ok)
    \/ \E outcome \in {"ok", "soft", "throw"} : AgentExecute(a, outcome)
    \/ AgentShutdownBegin(a)
    \/ \E ok \in BOOLEAN : AgentShutdownEnd(a, ok)

AgentSpecInit ==
  /\ IdleOrchestrator
  /\ OutsideInit

AgentSpec == AgentSpecInit /\ [][AgentNext]_vars

(******************************* CoderAgent ********************************)
\* The paths of context.files.
ContextFiles == SUBSET {"a.ts", "b.ts"}

\* What the request-parsing model call gives: it fails, its content is not
\* JSON, or it is a JSON object with the files it names and with or without
\* a description.
ParseOutcomes ==
  {[kind |-> "model-fails", description |-> FALSE, files |-> {}],
   [kind |-> "not-json", description |-> FALSE, files |-> {}]}
    \cup [kind : {"json"}, description : BOOLEAN, files : SUBSET {"a.ts", "new.ts"}]

\* The model calls of generateNewFile and generateFileModification succeed
\* or fail.
GenerationOutcomes == {"ok", "fails"}

\* No lint-runner tool, or what it returns for the files.
LintOutcomes == {"no-linter", "ok", "fails"}

\* parseCodeRequest leaves its try block by an exception: the model call
\* failed, JSON.parse threw, or normalizeCodeRequest read `task`, which it
\* does not have, for a missing description.
parseThrows(parse) == parse.kind # "json" \/ ~parse.description

\* parseCodeRequest: the paths of the request's files, from
\* normalizeCodeRequest or from fallbackRequestParsing.
parseCodeRequest(files, parse) == IF parseThrows(parse) THEN files ELSE parse.files

\* validateCode on the files generateCode produced.
validateCode(produced, lint) ==
  IF produced = {} THEN "No files were generated or modified"
  ELSE IF lint = "fails" THEN "Linting failed"
  ELSE ""

outsideCoder ==
  <<clock, orchVars, toolVars, routerVars, memVars, agentVars, batchVars, budgetVars,
    repoVars, vectorVars, lateVars>>

\* CoderAgent.onExecute(task, context).
CoderOnExecute(files, parse, generation, lint) ==
  LET requestFiles == parseCodeRequest(files, parse)
      generationThrows == requestFiles # {} /\ generation = "fails"
      error == IF generationThrows THEN "generation failed"
               ELSE IF validateCode(requestFiles, lint) # ""
               THEN "Code validation failed"
               ELSE ""
  IN  /\ coderLast' =
           [files |-> files, parse |-> parse.kind, generation |-> generation,
            lint |-> lint, fallback |-> parseThrows(parse),
            requestFiles |-> requestFiles, thrown |-> FALSE,
            success |-> error = "", error |-> error]
      /\ UNCHANGED outsideCoder

CoderNext ==
  \E files \in ContextFiles, parse \in ParseOutcomes,
     generation \in GenerationOutcomes, lint \in LintOutcomes :
    CoderOnExecute(files, parse, generation, lint)

CoderSpecInit == IdleOrchestrator /\ OutsideInit

CoderSpec == CoderSpecInit /\ [][CoderNext]_vars

(******************************* the claims ********************************)
StatusOf(tt, t) == IF t \in DOMAIN tt THEN tt[t].status ELSE "absent"

EventCount(evs, type) ==
  Cardinality({i \in 1..Len(evs) : evs[i].type = type})

HasEvent(evs, type) == \E i \in 1..Len(evs) : evs[i].type = type

TerminalEvents == {"task:completed", "task:failed", "task:cancelled"}

InProgressTasks == {t \in DOMAIN tasks : tasks[t].status = InProgress}

\* C1: whatever maxConcurrentTasks is and however submissions, attempt
\* outcomes and cancellations interleave, the number of tasks whose status
\* is in_progress never exceeds maxConcurrentTasks.
C1_ConcurrencyBound ==
  Cardinality(InProgressTasks) <= config.maxConcurrentTasks

\* A task waits as pending while maxConcurrentTasks tasks are in progress.
C1_Witness ==
  /\ Cardinality(InProgressTasks) = config.maxConcurrentTasks
  /\ \E t \in DOMAIN tasks : tasks[t].status = Pending

\* C2: a task is never in_progress while one of its dependencies is missing
\* from the task table or has a status other than completed, whether
\* submitTask or the scan after a terminal transition started it.
C2_DependenciesCompleted ==
  \A t \in InProgressTasks :
    \A d \in tasks[t].dependencies :
      d \in DOMAIN tasks /\ tasks[d].status = Completed

\* C4: once a task's entry has a terminal status, no later step changes its
\* status or its stored result.
C4_TerminalAbsorbing ==
  [][\A t \in DOMAIN tasks :
       tasks[t].status \in TerminalStatuses
         => /\ tasks'[t].status = tasks[t].status
            /\ tasks'[t].result = tasks[t].result]_vars

\* C10: the events of a task come in lifecycle order: task:started is
\* preceded by task:submitted, at most one terminal event is emitted, and
\* no event of the task follows its terminal event.
C10_EventOrder ==
  \A t \in TaskIds :
    LET evs == emitted[t]
    IN /\ \A i \in 1..Len(evs) :
            evs[i].type = "task:started"
              => \E j \in 1..(i - 1) : evs[j].type = "task:submitted"
       /\ Cardinality({i \in 1..Len(evs) : evs[i].type \in TerminalEvents}) <= 1
       /\ \A i \in 1..Len(evs) :
            evs[i].type \in TerminalEvents => i = Len(evs)

OkBehaviour == [fails |-> 0, mode |-> "throw", final |-> "ok"]

StartedBySubmit(t) ==
  \E i \in 1..Len(emitted[t]) :
    emitted[t][i] = Event("task:started", "submitTask")

\* C5: a dependency-free task that submitTask starts at once, whose type has
\* a bound agent that returns a successful result on the first attempt,
\* ends completed with that result in its table entry and exactly one
\* task:completed event.
C5_SuccessCompletes ==
  \A t \in DOMAIN tasks :
    ( /\ tasks[t].dependencies = {}
      /\ StartedBySubmit(t)
      /\ selectAgent(tasks[t], agents) # ""
      /\ behaviour[t] = OkBehaviour
      /\ pc[t] = "done" )
    => /\ tasks[t].status = Completed
       /\ tasks[t].result = {AgentResult(OkBehaviour, 1)}
       /\ EventCount(emitted[t], "task:completed") = 1

\* C7: with retry enabled, a task whose agent throws on attempts 1..R-1 and
\* returns a successful result on attempt R <= maxRetries ends completed,
\* its stored result is that of attempt R, and the audit log of its task
\* memory has R entries.
C7_RetryThenSuccess ==
  \A t \in DOMAIN tasks :
    LET b == behaviour[t]
        R == b.fails + 1
    IN ( /\ config.enableRetry /\ config.enableAuditLog
         /\ selectAgent(tasks[t], agents) # ""
         /\ b.mode = "throw" /\ b.final = "ok" /\ b.fails >= 1
         /\ R <= config.maxRetries
         /\ pc[t] = "done" )
       => /\ tasks[t].status = Completed
          /\ tasks[t].result = {AgentResult(b, R)}
          /\ t \in DOMAIN taskMemories
          /\ Len(taskMemories[t].auditLog) = R

RECURSIVE SumSeq(_)
SumSeq(q) == IF q = <<>> THEN 0 ELSE Head(q) + SumSeq(Tail(q))

\* The number of attempts the configuration allows.
ConfiguredAttempts == IF config.enableRetry THEN config.maxRetries ELSE 1

\* Every attempt the configuration allows task t fails: the task has no task
\* memory or no agent, or its agent fails on each of those attempts.
FailsEveryAttempt(t) ==
  \/ t \notin DOMAIN taskMemories
  \/ selectAgent(tasks[t], agents) = ""
  \/ behaviour[t].fails >= ConfiguredAttempts

C9_CancelTask ==
  [][\A t \in TaskIds :
       /\ (lastCall'.op = "cancelTask" /\ lastCall'.id = t)
            => /\ StatusOf(tasks, t) \in {"absent", InProgress}
                    => /\ lastCall'.ret = "false"
                       /\ UNCHANGED <<tasks, runningTasks, emitted>>
               /\ StatusOf(tasks, t) = Pending
                    => /\ lastCall'.ret = "true"
                       /\ tasks' = [tasks EXCEPT ![t].status = Cancelled]
                       /\ emitted' =
                            [emitted EXCEPT
                               ![t] = Append(@, Event("task:cancelled", ""))]
                       /\ UNCHANGED runningTasks
       /\ (StatusOf(tasks, t) = Cancelled
             /\ ~HasEvent(emitted[t], "task:started"))
            => /\ StatusOf(tasks', t) = Cancelled
               /\ ~HasEvent(emitted'[t], "task:started")
               /\ t \notin runningTasks'
               /\ pc'[t] = "idle"]_vars

\* A pending task was cancelled and has stayed so while the running task
\* ended and the scan for the next task ran.
C9_Witness ==
  \E t, u \in DOMAIN tasks :
    /\ tasks[t].status = Cancelled
    /\ ~HasEvent(emitted[t], "task:started")
    /\ pc[u] = "done"

QueuedFree(t) ==
  /\ t \in DOMAIN tasks
  /\ tasks[t].status = Pending
  /\ tasks[t].dependencies = {}

C11_ListenerThrowKeepsTable ==
  \A t \in DOMAIN tasks :
    /\ (HasEvent(emitted[t], "task:completed")
          /\ ~HasEvent(emitted[t], "task:cancelled"))
         => /\ tasks[t].status = Completed
            /\ \E r \in tasks[t].result : r.success
    /\ attempt[t] = 0 => tasks[t].status # Failed
    /\ pc[t] = "done" => t \notin runningTasks

\* C12: a task whose type has no agent bound fails at once: one attempt is
\* made, no retry delay is waited, and the task ends failed with the error
\* naming the missing agent.  (The task has a task memory, so that
\* selectAgent is reached.)
C12_NoAgentFailsAtOnce ==
  \A t \in DOMAIN tasks :
    ( /\ t \in DOMAIN taskMemories
      /\ selectAgent(tasks[t], agents) = ""
      /\ HasEvent(emitted[t], "task:started") )
    => /\ attempt[t] = 1
       /\ pc[t] # "backoff"
       /\ waits[t] = <<>>
       /\ (pc[t] = "done" /\ ~HasEvent(emitted[t], "task:cancelled"))
            => /\ tasks[t].status = Failed
               /\ \A r \in tasks[t].result : r.errors = <<ErrNoAgent>>

\* C13: a failure during one task's execution changes that task's entry
\* only.  A failed attempt that is retried changes no entry; the step in
\* which a task is recorded failed is no call of the API (the rejection
\* stays inside), releases the task's slot, and leaves every other entry
\* as it was, except that of the pending task the scan of that step
\* starts; and if an eligible pending task waits, that step starts one.
C13_FailureIsolated ==
  [][\A t \in DOMAIN tasks :
       /\ (pc[t] = "attempt" /\ pc'[t] = "backoff") => tasks' = tasks
       /\ EventCount(emitted'[t], "task:failed")
             > EventCount(emitted[t], "task:failed")
            => /\ tasks'[t].status = Failed
               /\ lastCall' = NoCall
               /\ t \notin runningTasks'
               /\ DOMAIN tasks' = DOMAIN tasks
               /\ \A u \in DOMAIN tasks \ {t} :
                    \/ tasks'[u] = tasks[u]
                    \/ /\ eligible(tasks, runningTasks, u)
                       /\ tasks'[u] = startedTask(tasks[u])
                       /\ u \in runningTasks'
               /\ (\E u \in DOMAIN tasks : eligible(tasks, runningTasks, u))
                    => \E u \in DOMAIN tasks :
                         /\ tasks[u].status = Pending
                         /\ tasks'[u].status = InProgress
                         /\ u \in runningTasks']_vars

\* One task has failed, and another, started by the scan, went on to
\* complete.
C13_Witness ==
  \E t, u \in DOMAIN tasks :
    /\ tasks[t].status = Failed
    /\ tasks[u].status = Completed
    /\ \E i \in 1..Len(emitted[u]) :
         emitted[u][i] = Event("task:started", "processNextTask")

\* C14: submitTask of a task whose description or type is missing or empty
\* is rejected with an error and changes nothing: no table entry, no event,
\* no execution.  A valid submission returns the task's identifier and
\* stores the task, emitting task:submitted first; the stored task is
\* pending, or already started by the same call when it found a free slot.
\* (A step that stored task t is a submission with the dependencies and
\* the agent the state after it shows.)
C14_SubmitValidation ==
  [][lastCall'.op = "submitTask" =>
       LET t == lastCall'.id
           stored == t \in DOMAIN tasks'
       IN \A desc \in Descriptions, ty \in SubmittedTypes :
            \A deps \in IF stored THEN {tasks'[t].dependencies}
                         ELSE SUBSET (TaskIds \ {t}),
               b \in IF stored THEN {behaviour'[t]} ELSE AgentBehaviours :
              SubmitTask(t, desc, ty, deps, b)
                => IF desc = "" \/ ty = ""
                   THEN /\ lastCall'.ret = "error"
                        /\ UNCHANGED <<tasks, emitted, runningTasks, pc,
                                       attempt>>
                   ELSE /\ lastCall'.ret = "id"
                        /\ DOMAIN tasks' = DOMAIN tasks \cup {t}
                        /\ tasks'[t].type = ty
                        /\ emitted'[t][1] = Event("task:submitted", "")
                        /\ IF Cardinality(runningTasks)
                                < config.maxConcurrentTasks
                           THEN /\ tasks'[t].status = InProgress
                                /\ Len(emitted'[t]) = 2
                           ELSE /\ tasks'[t].status = Pending
                                /\ emitted'[t] =
                                     <<Event("task:submitted", "")>>
                                /\ pc'[t] = "idle"]_vars

\* A submission was rejected while an earlier, valid one is in the table.
C14_Witness ==
  /\ lastCall.op = "submitTask"
  /\ lastCall.ret = "error"
  /\ lastCall.id \notin DOMAIN tasks
  /\ emitted[lastCall.id] = <<>>
  /\ tasks # <<>>

\* The ways an argument object violates a tool's schema, stated from the
\* schema: a required parameter that is missing, a parameter the schema
\* does not know, a value whose type is not the declared one, a value that
\* fails a min, max, regex or enum rule.  nullIsMismatch says whether null
\* and undefined count as values of a wrong type.
SchemaViolations(params, args, nullIsMismatch) ==
  LET P == {params[i] : i \in 1..Len(params)}
      known(k) == \E q \in P : q.name = k
      mismatch(q, val) ==
        IF val.js \in {"null", "undefined"} THEN nullIsMismatch
        ELSE val.js # q.type
      fails(r, val) ==
        \/ r.type = "min" /\ val.js = "number" /\ val.n < r.num
        \/ r.type = "max" /\ val.js = "number" /\ val.n > r.num
        \/ r.type = "regex" /\ val.js = "string" /\ val.s \notin r.strs
        \/ r.type = "enum" /\ ~(val.js = "string" /\ val.s \in r.strs)
  IN {ArgError("missing", q.name, "") :
        q \in {q \in P : q.required /\ q.name \notin DOMAIN args}}
     \cup {ArgError("unknown", k, "") : k \in {k \in DOMAIN args : ~known(k)}}
     \cup {ArgError("type", q.name, q.type) :
             q \in {q \in P : /\ q.name \in DOMAIN args
                              /\ mismatch(q, args[q.name])}}
     \cup UNION {{ArgError("rule", q.name, q.validation[j].message) :
                    j \in {j \in 1..Len(q.validation) :
                             fails(q.validation[j], args[q.name])}} :
                 q \in {q \in P : q.name \in DOMAIN args}}

\* An executeTool call on the registered tool whose arguments violate the
\* schema does not call the tool's execute and returns a result with
\* success false whose error lists every violation.
RejectsViolations(nullIsMismatch) ==
  \A name \in DOMAIN tools :
    toolMetrics'[name].calls > toolMetrics[name].calls
      => LET viol == SchemaViolations(tools[name], toolLast'.args,
                                      nullIsMismatch)
         IN viol # {}
              => /\ toolRuns' = toolRuns
                 /\ toolLast'.ret = "returns"
                 /\ ~toolLast'.success
                 /\ toolLast'.error = "Invalid arguments"
                 /\ \A v \in viol :
                      \E i \in 1..Len(toolLast'.errors) :
                        toolLast'.errors[i] = v

\* C15 as stated: executeTool on a registered tool with arguments that
\* violate its schema (a required parameter missing, an unknown parameter,
\* a value of another type than the declared one, a failed min, max, regex
\* or enum rule) never calls the tool's execute and returns, not throws, a
\* result with success false whose error lists every violation, the name of
\* each missing required parameter included.
C15_InvalidCallRejected == [][RejectsViolations(TRUE)]_vars

\* C15 amended: the same, where a value that is null or undefined is of no
\* wrong type (validateArguments does not check the type of such a value,
\* and takes a required parameter given as null or undefined as present).
C15_InvalidCallRejectedAmended == [][RejectsViolations(FALSE)]_vars

\* A call was refused for several violations, a missing required parameter
\* among them, and the tool was not run.
C15_Witness ==
  /\ toolLast.tool \in DOMAIN tools
  /\ toolLast.error = "Invalid arguments"
  /\ Len(toolLast.errors) >= 3
  /\ \E i \in 1..Len(toolLast.errors) : toolLast.errors[i].kind = "missing"
  /\ \E i \in 1..Len(toolLast.errors) : toolLast.errors[i].kind = "rule"
  /\ toolRuns = 0

\* The calls that passed the rate-limit check at a time in the interval
\* from lo to hi, lo itself counted only when closed.
PassedWithin(lo, hi, closed) ==
  Cardinality({i \in 1..Len(passed) :
                 /\ passed[i] <= hi
                 /\ IF closed THEN passed[i] >= lo ELSE passed[i] > lo})

WindowBound(closed) ==
  \A T \in 0..MaxClock :
    PassedWithin(T - routerConfig.window, T, closed) <= routerConfig.requests

\* A generateResponse step of an initialised router made while the window
\* ending now already holds R passed calls: the call is rejected with the
\* rate-limit error, no model is selected, no backend call is made, and the
\* call is neither recorded in the window nor counted as passed.
RejectedWhenFull ==
  (/\ zai
   /\ <<requestTimes, passed, routerLast>>' # <<requestTimes, passed, routerLast>>
   /\ PassedWithin(clock - routerConfig.window, clock, FALSE) >= routerConfig.requests)
  => /\ routerLast'.ret = "rate-limit"
     /\ routerLast'.model = ""
     /\ routerLast'.backend = 0
     /\ passed' = passed
     /\ Len(requestTimes') <= Len(requestTimes)
     /\ \A i \in 1..Len(requestTimes') :
          \E j \in 1..Len(requestTimes) : requestTimes'[i] = requestTimes[j]

\* C16: with rateLimit {requests: R, window: W}, in any time interval of
\* length W, both ends included, at most R generateResponse calls pass the
\* rate-limit check; a call that would exceed R is rejected with the
\* rate-limit error before model selection and any backend call, is not
\* recorded and is not retried.
C16_RateLimit == [] WindowBound(TRUE) /\ [][RejectedWhenFull]_vars

\* C16, amended: the same for every interval (T - W, T], which excludes its
\* start: calls made exactly W apart do not share a window.
C16_RateLimitAmended == [] WindowBound(FALSE) /\ [][RejectedWhenFull]_vars

\* A call was rejected by a full window after R calls had passed.
C16_Witness ==
  /\ routerLast.ret = "rate-limit"
  /\ Len(passed) = routerConfig.requests
  /\ PassedWithin(clock - routerConfig.window, clock, FALSE) = routerConfig.requests
  /\ clock > 0

\* A limit of maxTokens is at least ceil(length / 4): since the limit is a
\* whole number, that is 4 * maxTokens >= length.
Sufficient(maxTokens, length) == 4 * maxTokens >= length

LimitOf(name) == modelsGet(models, name).maxTokens

\* A generateResponse step that got as far as a registered model.
SelectionMade ==
  /\ routerLast' # routerLast \/ passed' # passed
  /\ routerLast'.ret \in {"ok", "error"}

\* C17: with no cost budget, model selection returns the default model when
\* its limit is at least ceil(text length / 4); when the default's limit is
\* smaller and some registered model's limit is sufficient, it returns the
\* first registered model, in registration order, whose limit is sufficient.
C17_Selection ==
  [][(SelectionMade /\ isRegistered(models, routerConfig.defaultModel)) =>
       LET length == routerLast'.length
           default == routerConfig.defaultModel
       IN  /\ Sufficient(LimitOf(default), length) => routerLast'.model = default
           /\ (/\ ~Sufficient(LimitOf(default), length)
               /\ \E i \in 1..Len(models) : Sufficient(models[i].maxTokens, length))
              => \E i \in 1..Len(models) :
                   /\ models[i].name = routerLast'.model
                   /\ Sufficient(models[i].maxTokens, length)
                   /\ \A j \in 1..(i - 1) :
                        ~Sufficient(models[j].maxTokens, length)]_vars

\* The default code-llama was too small and a model other than the first
\* and the last registered one was chosen; and the default model was chosen
\* for a request of exactly its limit.
C17_Witness ==
  /\ routerLast.ret = "ok"
  /\ routerConfig.defaultModel = "code-llama"
  /\ isRegistered(models, "code-llama")
  /\ \/ /\ LimitOf("code-llama") = TokensSmall
        /\ routerLast.length = 4 * TokensSmall + 1
        /\ routerLast.model = "deepseek-coder"
        /\ Len(models) > 5
     \/ /\ LimitOf("code-llama") = TokensLarge
        /\ routerLast.length = 4 * TokensDefault + 1
        /\ routerLast.model = "code-llama"

TaskMemoryOps == {"addTaskStep", "updateTaskStep", "storeTaskResult", "addAuditEntry"}

NoMemoryFor(t) == \A i \in 1..Len(memTaskMemories) : memTaskMemories[i].taskId # t

\* C18: addTaskStep, updateTaskStep, storeTaskResult and addAuditEntry on a
\* task id that has no task memory fail with the not-found error and leave
\* the task memories, the repo memories and the generic entries as they
\* were; the task memory is not created.
C18_NotFound ==
  [][(/\ memLast'.op \in TaskMemoryOps
      /\ clock' = clock
      /\ NoMemoryFor(memLast'.arg[1]))
     => /\ memLast'.ret = ErrTaskMemory
        /\ UNCHANGED <<memTaskMemories, repoMemories, memory>>]_vars

\* addAuditEntry has failed for a task without a task memory while another
\* task's memory, holding an entry, is there.
C18_Witness ==
  /\ memLast.op = "addAuditEntry"
  /\ memLast.ret = ErrTaskMemory
  /\ NoMemoryFor(memLast.arg[1])
  /\ Len(memTaskMemories) = 1
  /\ memTaskMemories[1].results = 1

\* A sweep of `before` with ceiling max leaves `after`: at most max, nothing
\* removed unless there were more, then exactly the surplus, the kept ones
\* unchanged and in their order, none of them updated before a removed one.
SweptTo(before, after, at(_), max) ==
  /\ Len(after) <= max
  /\ IF Len(before) <= max THEN after = before
     ELSE /\ Len(after) = max
          /\ \E keep \in SUBSET (1..Len(before)) :
               /\ Cardinality(keep) = max
               /\ \A k \in 1..Len(after) :
                    \E i \in keep :
                      /\ after[k] = before[i]
                      /\ Cardinality({j \in keep : j < i}) = k - 1
               /\ \A i \in keep, j \in (1..Len(before)) \ keep :
                    at(before[j]) <= at(before[i])

SweepStep == memLast'.op = "cleanupExpiredEntries" /\ clock' = clock

\* C19: after an eviction sweep at most maxTaskMemory task memories are
\* left; of maxTaskMemory + n exactly the n least recently updated are
\* removed and the others kept unchanged. The same for repo memories and
\* maxRepoMemory.
C19_Eviction ==
  [][SweepStep =>
       /\ SweptTo(memTaskMemories, memTaskMemories',
                  LAMBDA m : m.updatedAt, memConfig.maxTaskMemory)
       /\ SweptTo(repoMemories, repoMemories',
                  LAMBDA m : m.lastUpdated, memConfig.maxRepoMemory)]_vars

\* A sweep has removed two of three task memories and kept the one created
\* first, refreshed last; and a sweep has removed one of three.
C19_Witness ==
  /\ memLast.op = "cleanupExpiredEntries"
  /\ \/ /\ memLast.arg[1] = {2, 3}
        /\ memLast.arg[2] = {2}
        /\ Len(memTaskMemories) = 1
        /\ memTaskMemories[1].updatedAt = MaxClock
     \/ /\ Cardinality(memLast.arg[1]) = 1
        /\ Len(memTaskMemories) = 2

\* C20: retrieve(key, type) after store(key, value, type, ttl) returns the
\* value while the elapsed time is at most ttl, or always without a ttl;
\* once the elapsed time exceeds ttl it returns absent and removes the
\* entry; without a store it returns absent; entries under other keys or
\* types stay as they were.
C20_TtlRetrieve ==
  [][(memLast'.op = "retrieve" /\ clock' = clock) =>
       LET id == memLast'.arg
           others(mem) == SelectSeq(mem, LAMBDA e : e.id # id)
       IN  /\ others(memory') = others(memory)
           /\ IF id \notin DOMAIN lastStore
              THEN memLast'.ret = "null"
              ELSE LET call == lastStore[id]
                       elapsed == clock - call.at
                   IN  IF call.ttl.defined /\ elapsed > call.ttl.n
                       THEN /\ memLast'.ret = "null"
                            /\ \A i \in 1..Len(memory') : memory'[i].id # id
                       ELSE memLast'.ret = call.value]_vars

ExecuteStep ==
  /\ agentLast'.op = "execute"
  /\ agentLast' # agentLast \/ hookRuns' # hookRuns

\* C21: execute before initialize fails with the not-initialized error and
\* does not run onExecute; execute after shutdown fails with another error,
\* of its own, and does not run onExecute; execute between initialize and
\* shutdown runs onExecute.
C21_ExecuteLifecycle ==
  [][ExecuteStep =>
       LET a == agentLast'.agent
           life == baseAgents[a].life
       IN  /\ life = "new" =>
                /\ agentLast'.thrown /\ agentLast'.ret = ErrNotInitialized
                /\ hookRuns' = hookRuns
           /\ life = "shutdown" =>
                /\ agentLast'.thrown
                /\ agentLast'.ret \notin {ErrNotInitialized, ErrAgent}
                /\ hookRuns' = hookRuns
           /\ life = "initialized" => hookRuns'[a] = hookRuns[a] + 1]_vars

AuditCount(mems, t) == Len(mems[t].auditLog)

\* C22: with enableAuditLog on, every step that takes a task to completed,
\* failed or cancelled appends exactly one audit entry to the task's
\* memory; with auditing off it appends none.
C22_AuditOnTerminal ==
  [][\A t \in DOMAIN tasks' :
       (/\ tasks'[t].status \in TerminalStatuses
        /\ StatusOf(tasks, t) \notin TerminalStatuses
        /\ t \in DOMAIN taskMemories)
       => /\ t \in DOMAIN taskMemories'
          /\ AuditCount(taskMemories', t) =
               AuditCount(taskMemories, t) + (IF config.enableAuditLog THEN 1 ELSE 0)]_vars

\* C29: a task is completed only with a stored result whose success is
\* true.
C29_CompletedMeansSuccess ==
  \A t \in DOMAIN tasks :
    tasks[t].status = Completed
      => tasks[t].result # {} /\ \A r \in tasks[t].result : r.success

\* C30: no state has a free slot while a pending task with all its
\* dependencies completed is in the table.
C30_WorkConserving ==
  ~ /\ Cardinality(runningTasks) < config.maxConcurrentTasks
    /\ \E t \in DOMAIN tasks :
         /\ tasks[t].status = Pending
         /\ t \notin runningTasks
         /\ \A d \in tasks[t].dependencies :
              d \in DOMAIN tasks /\ tasks[d].status = Completed

MetricsBalanced ==
  \A name \in DOMAIN toolMetrics :
    toolMetrics[name].calls = toolMetrics[name].successes + toolMetrics[name].failures

\* A step of executeTool: the registry's tools stay as they are.
ExecuteToolCounted ==
  tools' = tools =>
    LET name == toolLast'.tool
    IN  IF name \in DOMAIN tools
        THEN LET old == toolMetrics[name]
                 new == toolMetrics'[name]
             IN  /\ toolLast'.ret = "returns"
                 /\ new.calls = old.calls + 1
                 /\ \/ new.successes = old.successes + 1 /\ new.failures = old.failures
                    \/ new.successes = old.successes /\ new.failures = old.failures + 1
                 /\ toolLast'.error = "tool error" =>
                      /\ ~toolLast'.success
                      /\ toolRuns' = toolRuns + 1
                      /\ new.failures = old.failures + 1
                 /\ \A other \in DOMAIN toolMetrics \ {name} :
                      toolMetrics'[other] = toolMetrics[other]
        ELSE /\ toolLast'.ret = "throws"
             /\ toolLast'.error = "Tool not found"
             /\ toolMetrics' = toolMetrics

\* C23: every executeTool call on a registered tool adds one to calls and
\* one to exactly one of successes and failures, so calls = successes +
\* failures always; an error thrown by the tool's execute is returned as a
\* result with success false and counted as a failure; executeTool on an
\* unregistered name fails with "Tool not found" and changes no metrics.
C23_MetricsCount == [] MetricsBalanced /\ [][ExecuteToolCounted]_vars

\* Two calls were counted, one success and one failure, the latter an error
\* thrown by the tool's execute.
C23_Witness ==
  /\ "demo" \in DOMAIN toolMetrics
  /\ toolMetrics["demo"] = [calls |-> 2, successes |-> 1, failures |-> 1]
  /\ toolLast.error = "tool error"
  /\ toolLast.ret = "returns"

\* The place of request i's group among the groups of five.
GroupOf(i) == (i - 1) \div 5

Settled(i) == promises[i].state \in {"fulfilled", "rejected"}

\* C24: generateBatchResponses returns one response per request, in request
\* order; a member whose generateResponse failed is represented by the error
\* response and every other member is still processed; at most 5 members
\* are in flight at once, and a group has members started only when every
\* member of the groups before it has settled.
C24_Batch ==
  /\ batchPhase = "returned" =>
       /\ Len(responses) = Len(batchRequests)
       /\ \A i \in 1..Len(batchRequests) :
            /\ Settled(i)
            /\ promises[i].state = "rejected" => responses[i] = ErrorResponse
            /\ promises[i].state = "fulfilled" =>
                 /\ responses[i].content = i
                 /\ responses[i].model # "error"
                 /\ responses[i].finishReason = "stop"
  /\ Cardinality(inFlight) <= 5
  /\ \A i \in 1..Len(promises), j \in 1..Len(promises) :
       (promises[i].state # "unstarted" /\ GroupOf(j) < GroupOf(i)) => Settled(j)

\* A batch of seven returned, with failed and answered members in both groups.
C24_Witness ==
  /\ batchPhase = "returned"
  /\ Len(batchRequests) = 7
  /\ promises[2].state = "rejected"
  /\ promises[7].state = "rejected"
  /\ responses[1].content = 1
  /\ responses[6].content = 6

\* The model the budget step must select for a request of the given text
\* length, a budget being configured when config.costBudget is present.
BudgetChoice(length) ==
  LET estimatedTokens == (length + 3) \div 4
      selected == IF isRegistered(models, routerConfig.defaultModel)
                  THEN routerConfig.defaultModel
                  ELSE routerConfig.fallbackModels[1]
      within == {i \in 1..Len(models) :
                   metricsCost + estimatedTokens * models[i].costPerToken <= costBudget[1]}
  IN  IF costBudget # <<>>
         /\ metricsCost + estimatedTokens * costOf(models, selected) > costBudget[1]
      THEN IF within # {}
           THEN models[CHOOSE i \in within : \A j \in within : i <= j].name
           ELSE selected
      ELSE selected

\* C25: with a costBudget configured, a generateResponse call whose running
\* cost plus the estimated cost of the model selected so far exceeds the
\* budget selects the first registered model whose estimated cost keeps the
\* running cost within the budget, or the model selected so far when there
\* is none; when the budget is not exceeded the selection stays as it was.
C25_BudgetStep ==
  [][(passed' # passed) => routerLast'.model = BudgetChoice(routerLast'.length)]_vars

RepoSections == {"structure", "symbols", "dependencies", "history", "metadata"}

SectionOf(op) ==
  CASE op = "updateRepoStructure" -> "structure"
    [] op = "updateRepoSymbols" -> "symbols"
    [] op = "updateRepoDependencies" -> "dependencies"
    [] op = "updateRepoHistory" -> "history"
    [] op = "updateRepoMetadata" -> "metadata"

\* The repo memory with the id r in the sequence repos.
RepoIn(repos, r) == repos[CHOOSE i \in 1..Len(repos) : repos[i].repoId = r]

\* The named section takes the partial's fields and keeps its others; the
\* other sections and the other repo memories stay; an unknown id is
\* reported and nothing changes.  `stamp` tells whether lastUpdated of the
\* addressed repo memory is set to the time of the call or stays.
RepoUpdateMerges(stamp) ==
  (repoUpdates' # repoUpdates) =>
    LET r == memLast'.arg[1]
        partial == memLast'.arg[2]
        section == SectionOf(memLast'.op)
    IN  IF ~ \E i \in 1..Len(repoMemories) : repoMemories[i].repoId = r
        THEN memLast'.ret = ErrRepoMemory /\ repoMemories' = repoMemories
        ELSE /\ memLast'.ret = "ok"
             /\ Len(repoMemories') = Len(repoMemories)
             /\ \A i \in 1..Len(repoMemories) :
                  repoMemories[i].repoId # r => repoMemories'[i] = repoMemories[i]
             /\ LET old == RepoIn(repoMemories, r)
                    new == RepoIn(repoMemories', r)
                IN  /\ \A other \in RepoSections \ {section} : new[other] = old[other]
                    /\ new.lastUpdated = IF stamp THEN clock ELSE old.lastUpdated
                    /\ DOMAIN new[section] = DOMAIN old[section]
                    /\ \A f \in DOMAIN old[section] :
                         new[section][f] =
                           IF f \in DOMAIN partial THEN partial[f] ELSE old[section][f]

\* C27: each updateRepo* call changes only the named section of the
\* addressed repo memory: fields absent from the partial keep their values,
\* the other sections and repositories are unchanged, the section is not
\* replaced wholesale; on an unknown id the call fails with not-found and
\* changes nothing.
C27_RepoUpdate == [][RepoUpdateMerges(FALSE)]_vars

\* C27 amended: besides the named section the call sets lastUpdated of the
\* addressed repo memory to the time of the call.
C27_RepoUpdateAmended == [][RepoUpdateMerges(TRUE)]_vars

\* Repo 1 had its structure updated, then, later, one field of its metadata;
\* repo 2 exists.
C27_Witness ==
  /\ memLast.op = "updateRepoMetadata"
  /\ memLast.ret = "ok"
  /\ memLast.arg[1] = 1
  /\ DOMAIN memLast.arg[2] = {"complexity"}
  /\ Len(repoMemories) = 2
  /\ RepoIn(repoMemories, 1).structure.files = "new"
  /\ RepoIn(repoMemories, 1).metadata.name = "1"
  /\ RepoIn(repoMemories, 1).lastUpdated > 0

NonZero(v) == \E i \in 1..Len(v) : v[i] # 0

\* The cosine of the angle between q and v exists.
HasCosine(q, v) == Len(q) = Len(v) /\ NonZero(q) /\ NonZero(v)

SquaredNorms(q, v) == dotProduct(q, q) * dotProduct(v, v)

\* cos(q, v) >= p / d for a threshold p / d that is not negative.
CosineAtLeast(q, v, threshold) ==
  /\ dotProduct(q, v) >= 0
  /\ dotProduct(q, v) * dotProduct(q, v) * threshold[2] * threshold[2]
       >= threshold[1] * threshold[1] * SquaredNorms(q, v)

\* The reported similarity is cos(q, v).
IsCosine(similarity, q, v) ==
  similarity.num * SquaredNorms(q, v) = signedSquare(dotProduct(q, v)) * similarity.den

IsOne(similarity) == similarity.den # 0 /\ similarity.num = similarity.den

StoredAt(id) == CHOOSE i \in 1..Len(vectorStore) : vectorStore[i].id = id

IsStored(id) == \E i \in 1..Len(vectorStore) : vectorStore[i].id = id

\* The results of an enabled store, as the claim states them.
SearchAsStated(query, limit, results) ==
  /\ Len(results) <= limit
  /\ \A k \in 1..Len(results) :
       /\ IsStored(results[k].id)
       /\ LET v == vectorStore[StoredAt(results[k].id)].vector
          IN  /\ HasCosine(query, v)
              /\ CosineAtLeast(query, v, vectorConfig.similarityThreshold)
              /\ IsCosine(results[k].similarity, query, v)
  /\ \A k \in 1..Len(results), l \in 1..Len(results) :
       k < l => atLeast(results[k].similarity, results[l].similarity)
  /\ (NonZero(query) /\ \E i \in 1..Len(vectorStore) : vectorStore[i].vector = query)
       => /\ results # <<>>
          /\ IsOne(results[1].similarity)
          /\ vectorStore[StoredAt(results[1].id)].vector = query

Similarity(q, v) ==
  IF Len(q) # Len(v) THEN [num |-> 0, den |-> 1]
  ELSE [num |-> signedSquare(dotProduct(q, v)), den |-> SquaredNorms(q, v)]

Qualifies(q, i) ==
  atLeast(Similarity(q, vectorStore[i].vector),
          [num |-> vectorConfig.similarityThreshold[1] * vectorConfig.similarityThreshold[1],
           den |-> vectorConfig.similarityThreshold[2] * vectorConfig.similarityThreshold[2]])

\* Entry i comes before entry j in the results: it is more similar, or as
\* similar and stored earlier.
Ahead(q, i, j) ==
  LET x == Similarity(q, vectorStore[i].vector)
      y == Similarity(q, vectorStore[j].vector)
  IN  \/ ~atLeast(y, x)
      \/ atLeast(x, y) /\ i < j

SearchAmended(query, limit, results) ==
  LET qualifying == {i \in 1..Len(vectorStore) : Qualifies(query, i)}
      returned == {StoredAt(results[k].id) : k \in 1..Len(results)}
  IN  /\ \A k \in 1..Len(results) :
           /\ IsStored(results[k].id)
           /\ results[k].similarity =
                Similarity(query, vectorStore[StoredAt(results[k].id)].vector)
      /\ returned \subseteq qualifying
      /\ Cardinality(returned) = Len(results)
      /\ Len(results) = Min(limit, Cardinality(qualifying))
      /\ \A k \in 1..Len(results), l \in 1..Len(results) :
           k < l => Ahead(query, StoredAt(results[k].id), StoredAt(results[l].id))
      /\ \A i \in returned, j \in qualifying \ returned : Ahead(query, i, j)
      /\ \A i \in 1..Len(vectorStore) :
           (NonZero(query) /\ vectorStore[i].vector = query) =>
             LET equals == {j \in 1..(i - 1) :
                              IsOne(Similarity(query, vectorStore[j].vector))}
             IN  /\ i \in qualifying
                 /\ i \in returned <=> Cardinality(equals) < limit
                 /\ i \in returned =>
                      /\ results[Cardinality(equals) + 1].id = vectorStore[i].id
                      /\ IsOne(results[Cardinality(equals) + 1].similarity)

ParseFailed == coderLast.parse \in {"model-fails", "not-json"}

\* C28: when the request-parsing model call fails or returns text that is
\* not JSON, the agent builds the request with its fallback heuristic from
\* the context's files and goes on to the generation; the parse failure by
\* itself makes neither the step throw nor the task fail: with the
\* generation's model calls and the linter succeeding the result is a success.
C28_ParseFallback ==
  ParseFailed =>
    /\ coderLast.fallback
    /\ coderLast.requestFiles = coderLast.files
    /\ ~coderLast.thrown
    /\ (coderLast.generation = "ok" /\ coderLast.lint # "fails") => coderLast.success

\* C40: shut down is terminal: once an agent's shutdown has completed, no
\* call makes it initialized again or runs its onExecute again; an initialize
\* of an initialized agent does not start onInitialize and a shutdown of an
\* agent that is not initialized does not start onShutdown.
C40_ShutdownTerminal ==
  [][\A a \in AgentNames :
       /\ baseAgents[a].life = "shutdown" =>
            /\ baseAgents'[a].life = "shutdown"
            /\ ~baseAgents'[a].isInitialized
            /\ baseAgents'[a].initializing = 0
            /\ hookRuns'[a] = hookRuns[a]
       /\ (baseAgents[a].isInitialized /\ baseAgents[a].initializing = 0)
            => baseAgents'[a].initializing = 0
       /\ (~baseAgents[a].isInitialized /\ baseAgents[a].shuttingDown = 0)
            => baseAgents'[a].shuttingDown = 0]_vars

\* C38: a tool's successes counter counts exactly the executeTool calls whose
\* returned result has success true: a call on a registered tool adds one to
\* successes when the result has success true and otherwise adds one to
\* failures and nothing to successes.
C38_SuccessesCountSuccess ==
  [][(tools' = tools /\ toolLast'.tool \in DOMAIN tools) =>
       LET old == toolMetrics[toolLast'.tool]
           new == toolMetrics'[toolLast'.tool]
       IN  IF toolLast'.success
           THEN new.successes = old.successes + 1 /\ new.failures = old.failures
           ELSE new.successes = old.successes /\ new.failures = old.failures + 1]_vars

\* Task t is recorded as failed with the error of a timed-out attempt.
FailedByTimeout(t) ==
  /\ t \in DOMAIN tasks
  /\ tasks[t].status = Failed
  /\ \E r \in tasks[t].result : r.errors = <<ErrTimeout>>

\* C35: when an abandoned attempt of a task that is recorded as failed by
\* timeout completes later, the task's table entry stays as it is (status
\* failed, the error result), no event is emitted for the task, in
\* particular no task:completed, and the set of running tasks is unchanged.
C35_LateCompletionIgnored ==
  [][\A t \in TaskIds :
       (FailedByTimeout(t) /\ abandoned'[t] < abandoned[t]) =>
         /\ tasks' = tasks
         /\ emitted' = emitted
         /\ runningTasks' = runningTasks]_vars

\* Without retry, task 1 failed by the timeout of its only attempt, and the
\* abandoned attempt has completed since and stored its result.
C35_Witness ==
  /\ ~config.enableRetry
  /\ FailedByTimeout(1)
  /\ abandoned[1] = 0
  /\ 1 \in DOMAIN taskMemories
  /\ Len(taskMemories[1].results) = 1
  /\ runningTasks = {}

\* C34: at most one attempt of a task's executeTaskLogic is in flight at any
\* time, the attempts that timed out and were left running included.
C34_AttemptsSerialized ==
  \A t \in TaskIds :
    abandoned[t] + (IF pc[t] = "attempt" THEN 1 ELSE 0) <= 1

\* The task ids the sweep would evict from the task memories `mems`.
SweepVictims(mems) ==
  {mems[i].taskId : i \in 1..Len(mems)}
    \ LET kept == evict(mems, [i \in 1..Len(mems) |-> mems[i].updatedAt],
                        memConfig.maxTaskMemory)
      IN  {kept[i].taskId : i \in 1..Len(kept)}

\* C33: a getTaskMemory call changes no task memory's updatedAt, and so it
\* does not change which task memories the next sweep evicts.
C33_ReadsKeepEviction ==
  [][memLast'.op = "getTaskMemory" =>
       /\ Len(memTaskMemories') = Len(memTaskMemories)
       /\ \A i \in 1..Len(memTaskMemories) :
            memTaskMemories'[i].updatedAt = memTaskMemories[i].updatedAt
       /\ SweepVictims(memTaskMemories') = SweepVictims(memTaskMemories)]_vars

\* The request whose text has the given length.
RequestOf(length) == CHOOSE req \in Requests : textLength(req) = length

\* C32: the rate-limit window is kept per model: a call that is admitted and
\* routed to a model has its time recorded in that model's window, and a
\* call is rejected by the rate limit only when the window of the model it
\* would be routed to is full.
C32_WindowPerModel ==
  [][
     /\ (passed' # passed /\ routerLast'.ret \in {"ok", "error"}) =>
          LET times == requestTimesGet(routerConfig, requestTimes', routerLast'.model)
          IN  times # <<>> /\ times[Len(times)] = clock
     /\ (routerLast' # routerLast /\ routerLast'.ret = "rate-limit") =>
          LET routed == selectModel(routerConfig, models, RequestOf(routerLast'.length))
          IN  overLimit(validTimes(requestTimesGet(routerConfig, requestTimes, routed),
                                   clock, routerConfig.window),
                        routerConfig.requests)
    ]_vars

\* C36: whenever a registered model's maxTokens is at least the request's
\* estimated token count, the model selection returns has a maxTokens at
\* least that count.
C36_SelectionFits ==
  [][(routerLast' # routerLast /\ routerLast'.ret \in {"ok", "error"}) =>
       LET estimatedTokens == estimateTokenCount(RequestOf(routerLast'.length))
       IN  (\E i \in 1..Len(models) : models[i].maxTokens >= estimatedTokens)
             => modelsGet(models, routerLast'.model).maxTokens >= estimatedTokens]_vars

\* A generateResponse call of the metered router has just been made.
MeteredStep == metricsLast' # metricsLast \/ routerMetrics' # routerMetrics

\* C37: a generateResponse call that returns adds one to metrics.requests
\* and one latency sample, a call that throws adds one to metrics.errors and
\* nothing to metrics.requests, at most 100 latency samples are held, and
\* metrics.tokensUsed and metrics.cost are numbers that never decrease.
C37_MetricsConsistent ==
  [][MeteredStep =>
       /\ metricsLast'.ret = "ok" =>
            /\ routerMetrics'.requests = routerMetrics.requests + 1
            /\ routerMetrics'.errors = routerMetrics.errors
            /\ routerMetrics'.latency
                 = (IF routerMetrics.latency = latencyKept THEN latencyKept
                    ELSE routerMetrics.latency + 1)
       /\ metricsLast'.ret # "ok" =>
            /\ routerMetrics'.errors = routerMetrics.errors + 1
            /\ routerMetrics'.requests = routerMetrics.requests
       /\ routerMetrics'.latency <= latencyKept
       /\ ~routerMetrics'.tokensUsed.nan
       /\ routerMetrics'.tokensUsed.n >= routerMetrics.tokensUsed.n
       /\ ~routerMetrics'.cost.nan
       /\ routerMetrics'.cost.n >= routerMetrics.cost.n]_vars

\* The errors the attempts of an executeWithRetry call can end with.
AttemptErrors == {ErrBackend, ErrRequestTimeout}

\* What the claim says of the delays waited so far: the delay after failed
\* attempt n is min(1000 * 2^(n-1), 10000).
StatedWaits ==
  \A n \in 1..Len(retry.waits) :
    retry.waits[n] = (IF 1000 * 2^(n - 1) <= 10000 THEN 1000 * 2^(n - 1) ELSE 10000)

\* C31: a generateResponse call makes at most maxRetries backend attempts;
\* an attempt whose timer fires first counts as failed with 'Request
\* timeout'; after failed attempt n < maxRetries the call waits min(1000 *
\* 2^(n-1), 10000) ms and after the last attempt nothing; the call returns
\* at the first attempt that succeeds and otherwise throws the error of the
\* last attempt, after exactly maxRetries attempts.
C31_RetryBackoff ==
  /\ retry.attempt <= routerConfig.maxRetries
  /\ Len(retry.ends) <= routerConfig.maxRetries
  /\ StatedWaits
  /\ retry.phase = "attempt" =>
       /\ Len(retry.ends) = retry.attempt - 1
       /\ Len(retry.waits) = retry.attempt - 1
       /\ \A n \in 1..Len(retry.ends) : retry.ends[n] \in AttemptErrors
  /\ retry.phase = "backoff" =>
       /\ Len(retry.ends) = retry.attempt
       /\ Len(retry.waits) = retry.attempt
       /\ retry.attempt < routerConfig.maxRetries
  /\ retry.phase = "returned" =>
       /\ Len(retry.ends) = retry.attempt
       /\ retry.ends[retry.attempt] = "ok"
       /\ \A n \in 1..(retry.attempt - 1) : retry.ends[n] \in AttemptErrors
       /\ Len(retry.waits) = retry.attempt - 1
  /\ retry.phase = "thrown" =>
       /\ retry.attempt = routerConfig.maxRetries
       /\ Len(retry.ends) = routerConfig.maxRetries
       /\ \A n \in 1..Len(retry.ends) : retry.ends[n] \in AttemptErrors
       /\ Len(retry.waits) = routerConfig.maxRetries - 1

\* The sixth attempt of six answered, after attempts that failed and timed
\* out and five delays, the last of them at the ceiling of 10000 ms.
C31_Witness ==
  /\ routerConfig.maxRetries = 6
  /\ retry.phase = "returned"
  /\ retry.attempt = 6
  /\ retry.waits = <<1000, 2000, 4000, 8000, 10000>>
  /\ retry.ends[5] = ErrRequestTimeout
  /\ retry.ends[1] = ErrBackend

\* The executeTool calls on "demo" that have returned and held the metrics
\* object the registry holds now.
ReturnedCalls ==
  {c \in CallIds : toolCalls[c].state = "returned" /\ toolCalls[c].gen = toolGen}

\* C39: however executeTool calls on a registered tool overlap, the tool's
\* calls counter is the number of those calls that have returned, and so is
\* successes + failures; and the rate-limit window holds exactly one time
\* per generateResponse call admitted within the window.
C39_NoLostUpdate ==
  /\ "demo" \in DOMAIN toolMetrics =>
       /\ toolMetrics["demo"].calls = Cardinality(ReturnedCalls)
       /\ toolMetrics["demo"].successes + toolMetrics["demo"].failures
            = Cardinality(ReturnedCalls)
  /\ validTimes(requestTimes, clock, routerConfig.window)
       = validTimes(passed, clock, routerConfig.window)

\* Three calls were in flight at once and all have returned, counted three
\* times; two generateResponse calls were admitted at the same time.
C39_Witness ==
  /\ \A c \in CallIds : toolCalls[c].state = "returned"
  /\ \E c \in CallIds : toolCalls[c].among = MaxInFlight
  /\ toolMetrics["demo"].calls = MaxInFlight
  /\ Len(requestTimes) = 2
  /\ requestTimes[1] = requestTimes[2]

====
